---- MODULE Spec2Model ----
(***************************************************************************)
(* A model of the Philadelphia events calendar client                      *)
(* (backend/static/app.js, whose current revision is the script kept in    *)
(* backend/static/images/README.md from line 58 on) and of its service     *)
(* worker (backend/static/sw.js).                                          *)
(*                                                                         *)
(* JavaScript strings are modelled as sequences of one-character strings,  *)
(* so that substring search, trimming, splitting and number conversion are *)
(* computed as the script computes them.  null is the value Null.          *)
(***************************************************************************)
EXTENDS Integers, Sequences, FiniteSets, Bags, TLC

(***************************************************************************)
(* Bounds of the model.                                                    *)
(***************************************************************************)
\* events in one /events/upcoming response
MaxEvents == 2
\* loadEvents calls in flight at once
MaxLoads == 2
\* fetches of the session and saves handlers in flight at once
MaxPending == 1
\* rows of the server's save list
MaxSaves == 3
\* refused verifications counted
MaxFailed == 2

(***************************************************************************)
(* JavaScript values and string primitives.                                *)
(***************************************************************************)
Null == <<"<null>">>

\* JavaScript truthiness of a string-or-null value
Truthy(s) == s # Null /\ s # <<>>

\* (x || dflt) for a string-or-null value
OrElse(s, dflt) == IF Truthy(s) THEN s ELSE dflt

UpperChars == <<"A","B","C","D","E","F","G","H","I","J","K","L","M",
                "N","O","P","Q","R","S","T","U","V","W","X","Y","Z">>
LowerChars == <<"a","b","c","d","e","f","g","h","i","j","k","l","m",
                "n","o","p","q","r","s","t","u","v","w","x","y","z">>
DigitChars == <<"0","1","2","3","4","5","6","7","8","9">>

Range(f) == {f[i] : i \in DOMAIN f}

IndexOf(seq, c) == CHOOSE i \in DOMAIN seq : seq[i] = c

IsUpper(c) == c \in Range(UpperChars)
IsLower(c) == c \in Range(LowerChars)
IsAlpha(c) == IsUpper(c) \/ IsLower(c)
IsDigit(c) == c \in Range(DigitChars)
IsSpace(c) == c \in {" ", "\t", "\n"}

DigitVal(c) == IndexOf(DigitChars, c) - 1

\* String.prototype.toLowerCase
ToLowerCase(s) ==
    [i \in DOMAIN s |-> IF IsUpper(s[i]) THEN LowerChars[IndexOf(UpperChars, s[i])] ELSE s[i]]

\* String.prototype.includes
Includes(s, q) ==
    \E i \in 0..(Len(s) - Len(q)) : SubSeq(s, i + 1, i + Len(q)) = q

\* String.prototype.trim
Trim(s) ==
    LET nonSpace == {i \in DOMAIN s : ~IsSpace(s[i])}
        Min(S) == CHOOSE x \in S : \A y \in S : x <= y
        Max(S) == CHOOSE x \in S : \A y \in S : x >= y
    IN  IF nonSpace = {} THEN <<>> ELSE SubSeq(s, Min(nonSpace), Max(nonSpace))

\* position of the first occurrence of character c in s, 0 when absent
FirstPos(s, c) ==
    IF \E i \in DOMAIN s : s[i] = c
    THEN CHOOSE i \in DOMAIN s : s[i] = c /\ \A j \in 1..(i - 1) : s[j] # c
    ELSE 0

\* String.prototype.replace(c, r) with a one-character pattern: first occurrence only
ReplaceFirst(s, c, r) ==
    LET p == FirstPos(s, c)
    IN  IF p = 0 THEN s ELSE SubSeq(s, 1, p - 1) \o r \o SubSeq(s, p + 1, Len(s))

\* String.prototype.split(c) with a one-character separator
RECURSIVE Split(_, _)
Split(s, c) ==
    LET p == FirstPos(s, c)
    IN  IF p = 0 THEN <<s>>
        ELSE <<SubSeq(s, 1, p - 1)>> \o Split(SubSeq(s, p + 1, Len(s)), c)

\* the value of a string of decimal digits
RECURSIVE DigitsVal(_)
DigitsVal(s) ==
    IF s = <<>> THEN 0 ELSE 10 * DigitsVal(SubSeq(s, 1, Len(s) - 1)) + DigitVal(s[Len(s)])

AllDigits(s) == \A i \in DOMAIN s : IsDigit(s[i])

\* parseInt(s, 10) of a string the regular expression matched as \d+
ParseInt(s) == DigitsVal(s)

\* A JavaScript number as the Date constructor sees it: NaN, or the integer
\* part of a finite value (the constructor truncates its arguments).
NaN == [nan |-> TRUE, v |-> 0]
Num(n) == [nan |-> FALSE, v |-> n]

\* Number(s) followed by the Date constructor's truncation.  s is a string,
\* or Undefined when destructuring found no element.
Undefined == <<"<undefined>">>
ToNumber(s) ==
    IF s = Undefined THEN NaN
    ELSE LET t == Trim(s)
             neg == t # <<>> /\ t[1] = "-"
             u == IF t # <<>> /\ t[1] \in {"-", "+"} THEN SubSeq(t, 2, Len(t)) ELSE t
             dot == FirstPos(u, ".")
             ip == IF dot = 0 THEN u ELSE SubSeq(u, 1, dot - 1)
             fp == IF dot = 0 THEN <<>> ELSE SubSeq(u, dot + 1, Len(u))
         IN  IF t = <<>> THEN Num(0)
             ELSE IF u = <<>> \/ u = <<".">> THEN NaN
             ELSE IF AllDigits(ip) /\ AllDigits(fp)
                  THEN Num(IF neg THEN 0 - DigitsVal(ip) ELSE DigitsVal(ip))
                  ELSE NaN

\* (n || 0)
OrZero(n) == IF n.nan THEN Num(0) ELSE n

\* String(n) of an integer
RECURSIVE NatToStr(_)
NatToStr(n) == IF n < 10 THEN <<DigitChars[n + 1]>> ELSE NatToStr(n \div 10) \o <<DigitChars[(n % 10) + 1]>>
IntToStr(n) == IF n < 0 THEN <<"-">> \o NatToStr(0 - n) ELSE NatToStr(n)

\* String(n).padStart(2, '0')
Pad2(n) == LET s == IntToStr(n) IN IF Len(s) < 2 THEN <<"0">> \o s ELSE s

\* s < t in the code-unit order Array.prototype.sort uses by default
CharOrder == <<" ", "-", "0","1","2","3","4","5","6","7","8","9", ":",
               "A","B","C","D","E","F","G","H","I","J","K","L","M",
               "N","O","P","Q","R","S","T","U","V","W","X","Y","Z",
               "a","b","c","d","e","f","g","h","i","j","k","l","m",
               "n","o","p","q","r","s","t","u","v","w","x","y","z">>
CharCode(c) == IndexOf(CharOrder, c)
RECURSIVE StrLess(_, _)
StrLess(s, t) ==
    IF t = <<>> THEN FALSE
    ELSE IF s = <<>> THEN TRUE
    ELSE IF s[1] = t[1] THEN StrLess(Tail(s), Tail(t))
    ELSE CharCode(s[1]) < CharCode(t[1])

\* Array.from(set).sort(): the strings of a set in ascending order
RECURSIVE SortedSeq(_)
SortedSeq(S) ==
    IF S = {} THEN <<>>
    ELSE LET m == CHOOSE x \in S : \A y \in S \ {x} : StrLess(x, y)
         IN  <<m>> \o SortedSeq(S \ {m})

(***************************************************************************)
(* Dates.  A Date is a record of its local fields, or the Invalid Date.    *)
(* mo is the zero-based month getMonth() returns.                          *)
(***************************************************************************)
InvalidDate == [valid |-> FALSE, y |-> 0, mo |-> 0, d |-> 0, h |-> 0, mi |-> 0, s |-> 0]

\* days since 1970-01-01 of the civil date y-m-d (m in 1..12), proleptic Gregorian
DaysFromCivil(y, m, d) ==
    LET yy == IF m <= 2 THEN y - 1 ELSE y
        era == yy \div 400
        yoe == yy - era * 400
        mp == IF m > 2 THEN m - 3 ELSE m + 9
        doy == (153 * mp + 2) \div 5 + d - 1
        doe == yoe * 365 + yoe \div 4 - yoe \div 100 + doy
    IN  era * 146097 + doe - 719468

\* the civil date <<y, m, d>> (m in 1..12) of a day number
CivilFromDays(z) ==
    LET zz == z + 719468
        era == zz \div 146097
        doe == zz - era * 146097
        yoe == (doe - doe \div 1460 + doe \div 36524 - doe \div 146096) \div 365
        doy == doe - (365 * yoe + yoe \div 4 - yoe \div 100)
        mp == (5 * doy + 2) \div 153
        d == doy - (153 * mp + 2) \div 5 + 1
        m == IF mp < 10 THEN mp + 3 ELSE mp - 9
        y == yoe + era * 400
    IN  <<IF m <= 2 THEN y + 1 ELSE y, m, d>>

\* new Date(year, month, day, hour, minute, second): local fields, out-of-range
\* fields carried over, a year of 0..99 read as 1900..1999, NaN giving Invalid
\* Date.  The local zone's daylight-saving gaps are not modelled.
NewDate(year, month, day, hour, minute, second) ==
    IF year.nan \/ month.nan \/ day.nan \/ hour.nan \/ minute.nan \/ second.nan
    THEN InvalidDate
    ELSE LET fy == IF year.v >= 0 /\ year.v <= 99 THEN 1900 + year.v ELSE year.v
             ym == fy + (month.v \div 12)
             mn == month.v % 12
             secs == hour.v * 3600 + minute.v * 60 + second.v
             days == DaysFromCivil(ym, mn + 1, 1) + (day.v - 1) + (secs \div 86400)
             sod == secs % 86400
             c == CivilFromDays(days)
         IN  [valid |-> TRUE, y |-> c[1], mo |-> c[2] - 1, d |-> c[3],
              h |-> sod \div 3600, mi |-> (sod % 3600) \div 60, s |-> sod % 60]

\* new Date(dateStr) reached with an empty date part (the string starts with
\* 'T', a space or '+', or is only a 'Z'): no such string is a date the
\* native parser accepts.
NativeParse(dateStr) == InvalidDate

\* index of the first character at or after i that is not white space
RECURSIVE SkipSpaces(_, _)
SkipSpaces(s, i) == IF i <= Len(s) /\ IsSpace(s[i]) THEN SkipSpaces(s, i + 1) ELSE i

\* index of the first character at or after i that is not a digit
RECURSIVE SkipDigits(_, _)
SkipDigits(s, i) == IF i <= Len(s) /\ IsDigit(s[i]) THEN SkipDigits(s, i + 1) ELSE i

NoMatch == [ok |-> FALSE]

\* s[i..i+n-1] when those are n digits, else <<>>
DigitsAt(s, i, n) ==
    IF i + n - 1 <= Len(s) /\ AllDigits(SubSeq(s, i, i + n - 1)) THEN SubSeq(s, i, i + n - 1) ELSE <<>>

\* dateStr.match(/^[A-Za-z]{3},\s+(\d{1,2})\s+([A-Za-z]{3})\s+(\d{4})\s+(\d{2}):(\d{2}):(\d{2})\s+GMT$/)
Rfc2822Match(s) ==
    IF ~(Len(s) >= 4 /\ IsAlpha(s[1]) /\ IsAlpha(s[2]) /\ IsAlpha(s[3]) /\ s[4] = ",") THEN NoMatch
    ELSE
    LET a == SkipSpaces(s, 5)                  \* start of the day
        b == SkipDigits(s, a)                  \* end of the day's digits
        c == SkipSpaces(s, b)                  \* start of the month name
        e == SkipSpaces(s, c + 3)              \* start of the year
        f == SkipSpaces(s, e + 4)              \* start of the time
        g == SkipSpaces(s, f + 8)              \* start of GMT
    IN  IF /\ a > 5 /\ b - a \in {1, 2}
           /\ c > b
           /\ c + 2 <= Len(s) /\ IsAlpha(s[c]) /\ IsAlpha(s[c + 1]) /\ IsAlpha(s[c + 2])
           /\ e > c + 3
           /\ DigitsAt(s, e, 4) # <<>>
           /\ f > e + 4
           /\ DigitsAt(s, f, 2) # <<>> /\ f + 7 <= Len(s) /\ s[f + 2] = ":"
           /\ DigitsAt(s, f + 3, 2) # <<>> /\ s[f + 5] = ":"
           /\ DigitsAt(s, f + 6, 2) # <<>>
           /\ g > f + 8
           /\ Len(s) = g + 2 /\ SubSeq(s, g, g + 2) = <<"G", "M", "T">>
        THEN [ok |-> TRUE, day |-> SubSeq(s, a, b - 1), mon |-> SubSeq(s, c, c + 2),
              year |-> SubSeq(s, e, e + 3), hour |-> SubSeq(s, f, f + 1),
              min |-> SubSeq(s, f + 3, f + 4), sec |-> SubSeq(s, f + 6, f + 7)]
        ELSE NoMatch

MonthNames == << <<"J","a","n">>, <<"F","e","b">>, <<"M","a","r">>, <<"A","p","r">>,
                 <<"M","a","y">>, <<"J","u","n">>, <<"J","u","l">>, <<"A","u","g">>,
                 <<"S","e","p">>, <<"O","c","t">>, <<"N","o","v">>, <<"D","e","c">> >>

\* months[name]: the zero-based month, undefined (NaN to the Date constructor)
\* for a name the table does not hold
MonthsLookup(name) ==
    IF name \in Range(MonthNames) THEN Num(IndexOf(MonthNames, name) - 1) ELSE NaN

Elem(seq, i) == IF i <= Len(seq) THEN seq[i] ELSE Undefined

\* number - 1
MinusOne(n) == IF n.nan THEN NaN ELSE Num(n.v - 1)

\* parseLocalDate(dateStr) at the time nowDate
parseLocalDate(dateStr, nowDate) ==
    IF ~Truthy(dateStr) THEN nowDate
    ELSE
    LET m == Rfc2822Match(dateStr)
    IN  IF m.ok
        THEN NewDate(Num(ParseInt(m.year)), MonthsLookup(m.mon), Num(ParseInt(m.day)),
                     Num(ParseInt(m.hour)), Num(ParseInt(m.min)), Num(ParseInt(m.sec)))
        ELSE
        LET clean == ReplaceFirst(Split(ReplaceFirst(dateStr, " ", <<"T">>), "+")[1], "Z", <<>>)
            parts == Split(clean, "T")
            datePart == Elem(parts, 1)
            timePart == Elem(parts, 2)
            ymd == Split(datePart, "-")
            year == ToNumber(Elem(ymd, 1))
            month == ToNumber(Elem(ymd, 2))
            day == ToNumber(Elem(ymd, 3))
        IN  IF datePart = <<>> THEN NativeParse(dateStr)
            ELSE IF timePart # Undefined /\ timePart # <<>>
            THEN LET hms == Split(timePart, ":")
                 IN  NewDate(year, MinusOne(month), day,
                             OrZero(ToNumber(Elem(hms, 1))), OrZero(ToNumber(Elem(hms, 2))),
                             OrZero(ToNumber(Elem(hms, 3))))
            ELSE NewDate(year, MinusOne(month), day, Num(0), Num(0), Num(0))

\* `${d.getFullYear()}-${String(d.getMonth() + 1).padStart(2, '0')}`
MonthKey(d) ==
    IF d.valid THEN IntToStr(d.y) \o <<"-">> \o Pad2(d.mo + 1)
    ELSE <<"N","a","N","-","N","a","N">>

\* `${year}-${pad(month)}-${pad(day)}` of renderGroupedByDay and todayKey
DayKey(d) ==
    IF d.valid THEN IntToStr(d.y) \o <<"-">> \o Pad2(d.mo + 1) \o <<"-">> \o Pad2(d.d)
    ELSE <<"N","a","N","-","N","a","N","-","N","a","N">>

(***************************************************************************)
(* Events and the inputs of the model.                                     *)
(***************************************************************************)
All == <<"a","l","l">>

\* NEIGHBORHOOD_KEYWORDS: neighbourhood pill label -> location substrings
NEIGHBORHOOD_KEYWORDS ==
    << [name |-> <<"R","i","t","t","e","n","h","o","u","s","e">>, kws |-> <<<<"r","i","t","t","e","n","h","o","u","s","e">>, <<"s","a","n","s","o","m">>, <<"w","a","l","n","u","t"," ","s","t","r","e","e","t">>>>],
       [name |-> <<"F","a","i","r","m","o","u","n","t"," ","P","a","r","k">>, kws |-> <<<<"f","a","i","r","m","o","u","n","t">>, <<"k","e","l","l","y"," ","d","r","i","v","e">>, <<"w","e","s","t"," ","r","i","v","e","r"," ","d","r","i","v","e">>, <<"s","c","h","u","y","l","k","i","l","l">>, <<"w","i","s","s","a","h","i","c","k","o","n">>>>],
       [name |-> <<"O","l","d"," ","C","i","t","y">>, kws |-> <<<<"o","l","d"," ","c","i","t","y">>, <<"i","n","d","e","p","e","n","d","e","n","c","e">>, <<"2","n","d"," ","s","t">>, <<"o","l","d"," ","c","i","t","y"," ","a","r","t","s">>>>],
       [name |-> <<"N","o","r","t","h","e","r","n"," ","L","i","b","e","r","t","i","e","s">>, kws |-> <<<<"n","o","r","t","h","e","r","n"," ","l","i","b","e","r","t","i","e","s">>, <<"l","i","b","e","r","t","y">>>>],
       [name |-> <<"Q","u","e","e","n"," ","V","i","l","l","a","g","e">>, kws |-> <<<<"q","u","e","e","n"," ","v","i","l","l","a","g","e">>, <<"s","o","u","t","h"," ","s","t","r","e","e","t">>>>],
       [name |-> <<"G","r","a","d","u","a","t","e"," ","H","o","s","p","i","t","a","l">>, kws |-> <<<<"g","r","a","d","u","a","t","e"," ","h","o","s","p","i","t","a","l">>>>],
       [name |-> <<"K","e","n","s","i","n","g","t","o","n">>, kws |-> <<<<"k","e","n","s","i","n","g","t","o","n">>>>],
       [name |-> <<"F","i","s","h","t","o","w","n">>, kws |-> <<<<"f","i","s","h","t","o","w","n">>, <<"f","r","a","n","k","f","o","r","d"," ","a","v","e">>, <<"j","o","h","n","n","y"," ","b","r","e","n","d","a">>>>],
       [name |-> <<"M","a","n","a","y","u","n","k">>, kws |-> <<<<"m","a","n","a","y","u","n","k">>>>],
       [name |-> <<"B","r","e","w","e","r","y","t","o","w","n">>, kws |-> <<<<"b","r","e","w","e","r","y","t","o","w","n">>, <<"y","a","r","d","s"," ","b","r","e","w","i","n","g">>>>],
       [name |-> <<"P","o","i","n","t"," ","B","r","e","e","z","e">>, kws |-> <<<<"p","o","i","n","t"," ","b","r","e","e","z","e">>, <<"p","a","s","s","y","u","n","k">>, <<"g","r","a","y","s"," ","f","e","r","r","y">>>>],
       [name |-> <<"C","h","e","s","t","n","u","t"," ","H","i","l","l">>, kws |-> <<<<"c","h","e","s","t","n","u","t"," ","h","i","l","l">>>>],
       [name |-> <<"W","e","s","t"," ","P","h","i","l","l","y">>, kws |-> <<<<"w","e","s","t"," ","p","h","i","l","l","y">>, <<"c","l","a","r","k"," ","p","a","r","k">>, <<"4","3","r","d">>, <<"u","n","i","v","e","r","s","i","t","y"," ","o","f"," ","p","e","n","n","s","y","l","v","a","n","i","a">>, <<"f","r","a","n","k","l","i","n"," ","f","i","e","l","d">>>>],
       [name |-> <<"P","a","s","s","y","u","n","k">>, kws |-> <<<<"p","a","s","s","y","u","n","k">>, <<"e","a","s","t"," ","p","a","s","s","y","u","n","k">>>>] >>

\* NEIGHBORHOOD_KEYWORDS[name] || []
KeywordsOf(name) ==
    IF \E i \in DOMAIN NEIGHBORHOOD_KEYWORDS : NEIGHBORHOOD_KEYWORDS[i].name = name
    THEN NEIGHBORHOOD_KEYWORDS[CHOOSE i \in DOMAIN NEIGHBORHOOD_KEYWORDS :
                                   NEIGHBORHOOD_KEYWORDS[i].name = name].kws
    ELSE <<>>

\* The events the server may list.  Event 1 carries the ISO encoding and a
\* midnight start, event 2 the RFC 2822 encoding and an untrimmed source,
\* event 3 has no start date, description, location or source.
Event1 == [id |-> 1, title |-> <<"G","i","g">>, description |-> <<"l","i","v","e"," ","j","a","z","z">>,
           start_date |-> <<"2","0","2","6","-","0","3","-","0","1","T","0","0",":","0","0",":","0","0">>, location |-> <<"F","i","s","h","t","o","w","n">>,
           category |-> "music", source |-> <<"W","X","P","N">>]
Event2 == [id |-> 2, title |-> <<"R","u","n">>, description |-> <<"5","k">>,
           start_date |-> <<"W","e","d",","," ","1","8"," ","F","e","b"," ","2","0","2","6"," ","1","9",":","3","0",":","0","0"," ","G","M","T">>, location |-> <<"K","e","l","l","y"," ","D","r","i","v","e">>,
           category |-> "running", source |-> <<" ","W","X","P","N"," ">>]
Event3 == [id |-> 3, title |-> <<"A","r","t">>, description |-> Null,
           start_date |-> <<>>, location |-> Null,
           category |-> "music", source |-> Null]
EventPool == {Event1, Event2, Event3}

\* The state holds an event object as its id; EventOf gives the object.
EventIds == {e.id : e \in EventPool}
EventOf == [i \in EventIds |-> CHOOSE e \in EventPool : e.id = i]

\* the lists an /events/upcoming response may carry: distinct events, any order
EventLists ==
    {l \in UNION {[1..n -> EventIds] : n \in 0..MaxEvents} :
        \A i, j \in DOMAIN l : i # j => l[i] # l[j]}

\* the category buttons, pills and search texts the model's user tries
CategoryInputs == {"all", "music", "running"}
NeighborhoodInputs == {<<"F","i","s","h","t","o","w","n">>, <<"N","o","w","h","e","r","e">>}
QueryInputs == {<<>>, <<"J","a","z","z">>}

\* the instants the model's clock takes: either side of a month's end
Now1 == [valid |-> TRUE, y |-> 2026, mo |-> 1, d |-> 28, h |-> 23, mi |-> 59, s |-> 30]
Now2 == [valid |-> TRUE, y |-> 2026, mo |-> 2, d |-> 1, h |-> 0, mi |-> 0, s |-> 10]
Instants == {Now1, Now2}

\* parseLocalDate on the start dates of the pool at the instants of the clock,
\* with the month key and the day key the handlers form of each result
StartDates == {e.start_date : e \in EventPool}
ParsedStart ==
    [s \in StartDates, n \in Instants |->
        CHOOSE keys \in {[month |-> MonthKey(d), day |-> DayKey(d)] :
                            d \in {parseLocalDate(s, n)}} : TRUE]

\* The two wire encodings of a timestamp.  f holds the fields written in the
\* string: y, mo (1..12), d, h, mi, s.
WeekdayNames == << <<"T","h","u">>, <<"F","r","i">>, <<"S","a","t">>, <<"S","u","n">>, <<"M","o","n">>, <<"T","u","e">>, <<"W","e","d">> >>

\* HH:MM:SS
WireTime(f) == Pad2(f.h) \o <<":">> \o Pad2(f.mi) \o <<":">> \o Pad2(f.s)

\* the ISO-like encoding "2026-02-18T19:30:00": sep is 'T' or a space, suffix a
\* zone suffix or nothing
IsoWire(f, sep, suffix) ==
    IntToStr(f.y) \o <<"-">> \o Pad2(f.mo) \o <<"-">> \o Pad2(f.d) \o sep \o WireTime(f) \o suffix

\* the encoding "Wed, 18 Feb 2026 19:30:00 GMT" Flask's jsonify writes
RfcWire(f) ==
    WeekdayNames[(DaysFromCivil(f.y, f.mo, f.d) % 7) + 1] \o <<",", " ">> \o IntToStr(f.d)
        \o <<" ">> \o MonthNames[f.mo] \o <<" ">> \o IntToStr(f.y) \o <<" ">> \o WireTime(f)
        \o <<" ","G","M","T">>

\* the timestamps, separators and zone suffixes the model's server writes
TimestampFields == [y : {2026}, mo : {2, 12}, d : {8, 18}, h : {0, 19}, mi : {30}, s : {0, 45}]
Separators == {<<"T">>, <<" ">>}
ZoneSuffixes == {<<>>, <<"Z">>, <<"+","0","0",":","0","0">>, <<"-","0","5",":","0","0">>}
IsoInputs == {IsoWire(f, sep, suffix) : f \in TimestampFields, sep \in Separators,
                                        suffix \in ZoneSuffixes}
RfcInputs == {RfcWire(f) : f \in TimestampFields}

\* strings of neither encoding: no date at all, a month name the table does
\* not hold, a zone word that is not GMT
UnparseableInputs == {<<"s","o","o","n">>, <<"W","e","d",","," ","1","8"," ","F","o","o"," ","2","0","2","6"," ","1","9",":","3","0",":","0","0"," ","G","M","T">>,
                      <<"W","e","d",","," ","1","8"," ","F","e","b"," ","2","0","2","6"," ","1","9",":","3","0",":","0","0"," ","E","S","T">>}
EmptyInputs == {Null, <<>>}
DateInputs == IsoInputs \cup RfcInputs \cup UnparseableInputs \cup EmptyInputs

\* parseLocalDate on those strings at the instants of the clock
ParsedInputs == [s \in DateInputs, n \in Instants |-> parseLocalDate(s, n)]

(***************************************************************************)
(* State of the page: the script's globals and the part of the document    *)
(* the handlers read back.                                                  *)
(***************************************************************************)
VARIABLES
    allEvents,            \* let allEvents (the ids of its event objects, in order)
    filteredEvents,       \* let filteredEvents
    currentCategory,      \* let currentCategory
    currentMonth,         \* let currentMonth
    currentSource,        \* let currentSource (always the value of #sourceSelect)
    currentNeighborhood,  \* let currentNeighborhood
    searchInput,          \* #searchInput.value
    monthOptions,         \* option values of #monthSelect after "all"
    monthSelectValue,     \* #monthSelect.value
    sourceOptions,        \* option values of #sourceSelect after "all"
    container,            \* #eventsContainer: the day groups rendered, in order
    emptyShown,           \* #emptyState is displayed
    emptyHasClear,        \* #emptyActions holds the "Clear all filters" button
    loadingShown,         \* #loadingState is displayed
    refreshDisabled,      \* #refreshBtn.disabled
    loads,                \* loadEvents calls awaiting their response, oldest first
    now,                  \* the clock new Date() reads
    lastResolved,         \* the list of the last successful /events/upcoming response
    staleApplied,         \* that response belonged to a call started before one already applied
    localDates            \* what parseLocalDate gives for a start date at an instant: the
                          \* same through a behaviour, as the strings and the zone are

filterVars == <<allEvents, filteredEvents, currentCategory, currentMonth, currentSource,
                currentNeighborhood, searchInput, monthOptions, monthSelectValue,
                sourceOptions, container, emptyShown, emptyHasClear, loadingShown,
                refreshDisabled, loads, now, lastResolved, staleApplied, localDates>>

(***************************************************************************)
(* State of identity, bookmarks and saves.                                  *)
(***************************************************************************)
VARIABLES
    currentUser,          \* let currentUser (NoUser stands for null)
    bookmarkedIds,        \* let bookmarkedIds: the Set's ids in insertion order
    storedBookmarks,      \* localStorage 'philly_bookmarks'
    savedEventIds,        \* let savedEventIds
    serverSaves,          \* the server's save rows of the user: one event id per row
    profileBody,          \* #profileModalBody: which form it holds, and the saved rows listed
    profileOpen,          \* #profileModal is displayed
    otpEmail,             \* #otpEmail.value
    eventModal,           \* #eventModal: displayed or not, and the button #modalBody holds
    profileBtn,           \* the label of #profileBtn
    toast,                \* the message of the last showToast
    pending,              \* fetches of the session and saves handlers awaiting their response
    lastMigration,        \* the ids and the failures of the last migration loop that ended
    failedVerifies        \* verifications the server refused since the last sign-out

authVars == <<currentUser, bookmarkedIds, storedBookmarks, savedEventIds, serverSaves,
              profileBody, profileOpen, otpEmail, eventModal, profileBtn, toast, pending,
              lastMigration, failedVerifies>>

(***************************************************************************)
(* A call of parseLocalDate.                                                *)
(***************************************************************************)
VARIABLES
    dateStr,              \* the argument of the last parseLocalDate call
    parsedDate,           \* the Date that call returned
    eventTime             \* the text of .event-time-col of the row last built

parseVars == <<dateStr, parsedDate, eventTime>>

(***************************************************************************)
(* State of admin mode.                                                     *)
(***************************************************************************)
VARIABLES
    adminToken,           \* sessionStorage 'philly_admin_token' ("" when absent)
    addEventBtn,          \* the "+ Add Event" button is in the document
    addModal,             \* #addEventModal: displayed or not, and #eventId.value (0 for '')
    scrapeDisabled        \* #scrapeBtn.disabled

adminVars == <<adminToken, addEventBtn, addModal, scrapeDisabled>>

(***************************************************************************)
(* State of the service worker and of the caches of the origin.             *)
(***************************************************************************)
VARIABLES
    phase,                \* the worker: "none", "parsed", "installed" or "activated"
    cacheNames,           \* caches.keys()
    cacheEntries,         \* per cache and URL, the payload of the entry (0: none)
    online,               \* the network can be reached
    fetching,             \* the fetch events waiting for fetch(event.request)
    putting,              \* the calls of cache.put that have not resolved
    respondedWith,        \* what the last answered fetch event was answered with
    lastPut               \* per URL, the payload of the last cache.put that resolved

workerVars == <<phase, cacheNames, cacheEntries, online, fetching, putting,
                respondedWith, lastPut>>

restVars == <<parseVars, adminVars, workerVars>>

vars == <<filterVars, authVars, restVars>>

(***************************************************************************)
(* Identity, bookmarks and saves: values.                                   *)
(***************************************************************************)
\* currentUser = null
NoUser == [email |-> Null, display_name |-> Null]

\* the user object /auth/me and /auth/verify-otp return
User1 == [email |-> <<"p","a","t","@","x",".","i","o">>, display_name |-> Null]

\* updateProfileBtn: the label written after the icon
ProfileLabel(user) ==
    IF user = NoUser THEN <<"S","i","g","n"," ","I","n">>
    ELSE IF Truthy(user.display_name) THEN Split(user.display_name, " ")[1]
    ELSE Split(user.email, "@")[1]

\* Array.prototype.join
RECURSIVE Join(_, _)
Join(parts, sep) ==
    IF parts = <<>> THEN <<>>
    ELSE IF Len(parts) = 1 THEN parts[1]
    ELSE parts[1] \o sep \o Join(Tail(parts), sep)

\* JSON.stringify of an array of ids
Stringify(ids) == <<"[">> \o Join([k \in DOMAIN ids |-> IntToStr(ids[k])], <<",">>) \o <<"]">>

\* JSON.parse of a stored value: an array of ids, or a SyntaxError (ok = FALSE)
ParseIds(raw) ==
    IF Len(raw) >= 2 /\ raw[1] = "[" /\ raw[Len(raw)] = "]"
    THEN LET inner == SubSeq(raw, 2, Len(raw) - 1)
             parts == Split(inner, ",")
         IN  IF inner = <<>> THEN [ok |-> TRUE, ids |-> <<>>]
             ELSE IF \A k \in DOMAIN parts : parts[k] # <<>> /\ AllDigits(parts[k])
             THEN [ok |-> TRUE, ids |-> [k \in DOMAIN parts |-> ParseInt(parts[k])]]
             ELSE [ok |-> FALSE, ids |-> <<>>]
    ELSE [ok |-> FALSE, ids |-> <<>>]

\* new Set(ids): the first occurrence of every id, in order
RECURSIVE SetOf(_)
SetOf(ids) ==
    IF ids = <<>> THEN <<>>
    ELSE LET rest == SetOf(SubSeq(ids, 1, Len(ids) - 1))
             last == ids[Len(ids)]
         IN  IF last \in Range(rest) THEN rest ELSE Append(rest, last)

\* loadBookmarks: the bookmark set read from the stored value
loadBookmarks(raw) ==
    IF Truthy(raw)
    THEN LET parsed == ParseIds(raw)
         IN  IF parsed.ok THEN SetOf(parsed.ids) ELSE <<>>
    ELSE <<>>

\* saveBookmarks: the stored value written
saveBookmarks(ids) == Stringify(ids)

\* the server adds a save: a row for the event, with no check for a row it already holds
ServerSave(rows, id) == Append(rows, id)

\* the server removes a save: no row of the event is left
ServerUnsave(rows, id) == LET Other(x) == x # id IN SelectSeq(rows, Other)

\* the greatest number of responses on their way back from the server
MaxHandled == 1

\* the answer of a request the server has not handled yet; once it has, the
\* rows of the saves it answered with
NoAnswer == [at |-> "none", rows |-> <<>>]

\* a fetch of the session and saves handlers awaiting its response; flag is
\* sendOtp's resend, toggleSave's isSaved, and for a load of the saves whether
\* onLoginSuccess awaits it
Request(kind, id, flag) ==
    [kind |-> kind, id |-> id, flag |-> flag, ids |-> <<>>, i |-> 0, failed |-> {},
     answer |-> NoAnswer, header |-> Null]

\* the request with the header 'X-Admin-Token': token
WithToken(r, token) == [r EXCEPT !.header = token]

\* onLoginSuccess inside its loop: the snapshot ids, the position of the id whose
\* POST is awaited, and the ids whose POST failed so far
Migration(ids, i, failed) ==
    [kind |-> "migrate", id |-> 0, flag |-> FALSE, ids |-> ids, i |-> i, failed |-> failed,
     answer |-> NoAnswer, header |-> Null]

InFlight == BagToSet(pending)

\* the server has handled the request: its response is on the way
Handled(r) == r.answer.at = "server"

\* the requests the server has yet to handle
Unhandled == {r \in InFlight : ~Handled(r)}

\* the visitor acts again once the server has the earlier requests; their
\* responses may still be on the way
CanFetch ==
    /\ BagCardinality([r \in Unhandled |-> pending[r]]) < MaxPending
    /\ BagCardinality(pending) < MaxPending + MaxHandled
Sent(r) == pending (+) SetToBag({r})
Answered(r) == pending (-) SetToBag({r})
Followed(r, next) == (pending (-) SetToBag({r})) (+) SetToBag({next})

\* isAdminMode(): !!getAdminToken()
isAdminMode == Truthy(adminToken)

\* showEventDetail: the modal displayed, its button built for the identity at
\* this moment, with the Edit and Delete buttons when admin mode is on
EventDetail(user, id) ==
    [open |-> TRUE, onclick |-> IF user # NoUser THEN "toggleSave" ELSE "toggleBookmark",
     id |-> id, admin |-> isAdminMode]

\* showSignInModal: the form at its first step
SignInBody == [kind |-> "step1", rows |-> {}]

\* showSavesModal: the events of the store the mirror holds, each with its remove button
SavesBody(events, saved) == [kind |-> "saves", rows |-> {id \in Range(events) : id \in saved}]

\* inputs
EmailInputs == {<<"p","a","t">>, <<" ","p","a","t","@","x",".","i","o">>}
CodeInputs == {<<"1","2">>, <<"1","2","3","4","5","6">>}
Outcomes == {"success", "failure", "error"}
MeOutcomes == {"logged_in", "anonymous", "error"}
SaveOutcomes == {"accepted", "rejected", "error"}
AuthLoadInputs == {<<1, 2>>}
StoredBookmark == <<"[","3","]">>

(***************************************************************************)
(* The filter pipeline.                                                     *)
(***************************************************************************)
\* currentCategory === 'all' || event.category === currentCategory
MatchesCategory(event, category) == category = "all" \/ event.category = category

\* the month test of applyFilters and handleSearch
MatchesMonth(event, month, nowDate) ==
    IF month # All
    THEN localDates[event.start_date, nowDate].month = month
    ELSE TRUE

\* currentSource === 'all' || (event.source || '').trim() === currentSource
MatchesSource(event, source) == source = All \/ Trim(OrElse(event.source, <<>>)) = source

\* a neighbourhood test that every event passes
NeighborhoodIgnored(event, neighborhood) == TRUE

\* the neighbourhood test of applyFilters and handleSearch
MatchesNeighborhood(event, neighborhood) ==
    IF neighborhood # All
    THEN LET keywords == KeywordsOf(neighborhood)
             loc == ToLowerCase(OrElse(event.location, <<>>))
         IN  \E i \in DOMAIN keywords : Includes(loc, keywords[i])
    ELSE TRUE

\* the search test of handleSearch, for an event whose fields are all strings
MatchesSearch(event, query) ==
    query = <<>> \/ Includes(ToLowerCase(event.title), query)
                 \/ Includes(ToLowerCase(event.description), query)
                 \/ Includes(ToLowerCase(event.location), query)

\* the search test throws a TypeError: .toLowerCase() is reached on a null field
SearchThrows(event, query) ==
    /\ query # <<>>
    /\ \/ event.title = Null
       \/ /\ ~Includes(ToLowerCase(event.title), query)
          /\ \/ event.description = Null
             \/ /\ ~Includes(ToLowerCase(event.description), query)
                /\ event.location = Null

\* the callback of applyFilters
ApplyFiltersTest(event, category, month, source, neighborhood, nowDate) ==
    /\ MatchesCategory(event, category)
    /\ MatchesMonth(event, month, nowDate)
    /\ MatchesSource(event, source)
    /\ MatchesNeighborhood(event, neighborhood)

\* the events that pass applyFilters, the last of the store first
ApplyFiltersReversed(events, category, month, source, neighborhood, nowDate) ==
    LET Test(id) == ApplyFiltersTest(EventOf[id], category, month, source, neighborhood, nowDate)
        kept == SelectSeq(events, Test)
    IN  [k \in DOMAIN kept |-> kept[Len(kept) + 1 - k]]

\* allEvents.filter(...) of applyFilters
ApplyFiltersResult(events, category, month, source, neighborhood, nowDate) ==
    LET Test(id) == ApplyFiltersTest(EventOf[id], category, month, source, neighborhood, nowDate)
    IN  SelectSeq(events, Test)

\* allEvents.filter(...) of handleSearch, when no event makes the callback throw
HandleSearchResult(events, category, month, source, neighborhood, query, nowDate) ==
    LET Test(id) == /\ ApplyFiltersTest(EventOf[id], category, month, source, neighborhood, nowDate)
                    /\ MatchesSearch(EventOf[id], query)
    IN  SelectSeq(events, Test)

(***************************************************************************)
(* Rendering.                                                               *)
(***************************************************************************)
\* the day groups with the latest day first
groupedLatestFirst(events, nowDate) ==
    LET KeyOf(id) == localDates[EventOf[id].start_date, nowDate].day
        dayOrder == SortedSeq({KeyOf(events[i]) : i \in DOMAIN events})
        count == Len(dayOrder)
    IN  [k \in DOMAIN dayOrder |->
            LET InDay(id) == KeyOf(id) = dayOrder[count + 1 - k]
            IN  [key |-> dayOrder[count + 1 - k], items |-> SelectSeq(events, InDay)]]

\* the day groups with the events of each day in reverse
groupedItemsReversed(events, nowDate) ==
    LET KeyOf(id) == localDates[EventOf[id].start_date, nowDate].day
        dayOrder == SortedSeq({KeyOf(events[i]) : i \in DOMAIN events})
    IN  [k \in DOMAIN dayOrder |->
            LET InDay(id) == KeyOf(id) = dayOrder[k]
                items == SelectSeq(events, InDay)
            IN  [key |-> dayOrder[k], items |-> [j \in DOMAIN items |-> items[Len(items) + 1 - j]]]]

\* renderGroupedByDay: one group per day key, keys ascending, each group's
\* events in the order of filteredEvents
renderGroupedByDay(events, nowDate) ==
    LET KeyOf(id) == localDates[EventOf[id].start_date, nowDate].day
        dayOrder == SortedSeq({KeyOf(events[i]) : i \in DOMAIN events})
    IN  [k \in DOMAIN dayOrder |->
            LET InDay(id) == KeyOf(id) = dayOrder[k]
            IN  [key |-> dayOrder[k], items |-> SelectSeq(events, InDay)]]

\* renderEvents: what it leaves in <<container, emptyShown, emptyHasClear>>
renderEvents(events, filtered, nowDate) ==
    IF Len(filtered) = 0
    THEN <<<<>>, TRUE, Len(events) > 0>>
    ELSE <<renderGroupedByDay(filtered, nowDate), FALSE, emptyHasClear>>

\* populateMonthFilter: the option values after "all"
populateMonthFilter(events, nowDate) ==
    SortedSeq({localDates[EventOf[events[i]].start_date, nowDate].month : i \in DOMAIN events})

\* the sources as the events carry them, blanks at either end included
sourcesUntrimmed(events) ==
    SortedSeq({EventOf[events[i]].source :
                  i \in {j \in DOMAIN events : Truthy(EventOf[events[j]].source)}})

\* populateSourceFilter: the option values after "all"
populateSourceFilter(events) ==
    SortedSeq({Trim(EventOf[events[i]].source) :
                  i \in {j \in DOMAIN events :
                            /\ Truthy(EventOf[events[j]].source)
                            /\ Truthy(Trim(EventOf[events[j]].source))}})

(***************************************************************************)
(* The page's handlers: filters and loading.                                *)
(***************************************************************************)
\* renderEvents() on the new store and filtered list
Render(events, filtered) ==
    LET r == renderEvents(events, filtered, now)
    IN  /\ container' = r[1]
        /\ emptyShown' = r[2]
        /\ emptyHasClear' = r[3]

\* applyFilters() under the new selections
applyFilters(category, month, source, neighborhood) ==
    LET filtered == ApplyFiltersResult(allEvents, category, month, source, neighborhood, now)
    IN  /\ filteredEvents' = filtered
        /\ Render(allEvents, filtered)

\* what a filter handler leaves alone
loadFrame == UNCHANGED <<allEvents, monthOptions, sourceOptions, loadingShown,
                         refreshDisabled, loads, now, lastResolved, staleApplied, localDates,
                         authVars, restVars>>

\* handleFilter(category): a click on a category button
handleFilter(category) ==
    /\ currentCategory' = category
    /\ applyFilters(category, currentMonth, currentSource, currentNeighborhood)
    /\ UNCHANGED <<currentMonth, currentSource, currentNeighborhood, searchInput,
                   monthSelectValue>>
    /\ loadFrame

\* handleMonthFilter(e): the user picks another option of #monthSelect
handleMonthFilter(value) ==
    /\ value \in Range(monthOptions) \cup {All}
    /\ value # monthSelectValue
    /\ currentMonth' = value
    /\ monthSelectValue' = value
    /\ applyFilters(currentCategory, value, currentSource, currentNeighborhood)
    /\ UNCHANGED <<currentCategory, currentSource, currentNeighborhood, searchInput>>
    /\ loadFrame

\* handleSourceFilter(e): the user picks another option of #sourceSelect
handleSourceFilter(value) ==
    /\ value \in Range(sourceOptions) \cup {All}
    /\ value # currentSource
    /\ currentSource' = value
    /\ applyFilters(currentCategory, currentMonth, value, currentNeighborhood)
    /\ UNCHANGED <<currentCategory, currentMonth, currentNeighborhood, searchInput,
                   monthSelectValue>>
    /\ loadFrame

\* handleNeighborhoodFilter(neighborhood): a click on a pill; the active pill toggles off
handleNeighborhoodFilter(neighborhood) ==
    LET chosen == IF currentNeighborhood = neighborhood THEN All ELSE neighborhood
    IN  /\ currentNeighborhood' = chosen
        /\ applyFilters(currentCategory, currentMonth, currentSource, chosen)
        /\ UNCHANGED <<currentCategory, currentMonth, currentSource, searchInput,
                       monthSelectValue>>
        /\ loadFrame

\* clearFilters(): the button renderEvents puts into the displayed empty state
clearFilters ==
    /\ emptyShown /\ emptyHasClear
    /\ currentCategory' = "all"
    /\ currentMonth' = All
    /\ currentSource' = All
    /\ currentNeighborhood' = All
    /\ monthSelectValue' = All
    /\ searchInput' = <<>>
    /\ applyFilters("all", All, All, All)
    /\ loadFrame

\* handleSearch(e): the text of #searchInput changed to value.  A TypeError
\* thrown by the callback leaves the handler before filteredEvents is assigned.
handleSearch(value) ==
    LET query == ToLowerCase(value)
        throws == \E i \in DOMAIN allEvents : SearchThrows(EventOf[allEvents[i]], query)
        filtered == HandleSearchResult(allEvents, currentCategory, currentMonth, currentSource,
                                       currentNeighborhood, query, now)
    IN  /\ value # searchInput
        /\ searchInput' = value
        /\ IF throws
           THEN UNCHANGED <<filteredEvents, container, emptyShown, emptyHasClear>>
           ELSE /\ filteredEvents' = filtered
                /\ Render(allEvents, filtered)
        /\ UNCHANGED <<currentCategory, currentMonth, currentSource, currentNeighborhood,
                       monthSelectValue>>
        /\ loadFrame

filterFrame == UNCHANGED <<currentCategory, currentMonth, currentNeighborhood, searchInput,
                           localDates, authVars, restVars>>

\* loadEvents() up to its first await: the button is disabled, the indicator shown
loadEventsStarted ==
    /\ Len(loads) < MaxLoads
    /\ refreshDisabled' = TRUE
    /\ loadingShown' = TRUE
    /\ loads' = Append(loads, [stale |-> FALSE])

\* loadEvents() called by a handler that does nothing else before the response
loadEventsCall ==
    /\ loadEventsStarted
    /\ UNCHANGED <<allEvents, filteredEvents, currentSource, monthOptions, monthSelectValue,
                   sourceOptions, container, emptyShown, emptyHasClear, now, lastResolved,
                   staleApplied>>
    /\ filterFrame

\* refreshEvents(): a click on #refreshBtn, which a disabled button does not deliver
refreshEvents ==
    /\ ~refreshDisabled
    /\ loadEventsCall

\* the interval checkForUpdates() sets fires
checkForUpdates == loadEventsCall

\* the calls still in flight once call i has resolved; with a list applied, the
\* calls started before it are now older than the store
Remaining(i, applied) ==
    [k \in 1..(Len(loads) - 1) |->
        IF k < i THEN [stale |-> loads[k].stale \/ applied] ELSE loads[k + 1]]

\* a store that keeps what it held and appends the response
StoreMerged(old, events, stale) == old \o events

\* a store that ignores the response of a call older than one already applied
StoreKeepNewer(old, events, stale) == IF stale THEN old ELSE events

\* allEvents = data.events: the list of the response, whatever the store held
\* and whichever call the response belongs to
StoreAfterLoad(old, events, stale) == events

\* the finally block of loadEvents
loadEventsFinally ==
    /\ loadingShown' = FALSE
    /\ refreshDisabled' = FALSE

\* call i receives {success: true, events}
loadEventsSuccess(i, events) ==
    LET store == StoreAfterLoad(allEvents, events, loads[i].stale)
    IN  /\ i \in DOMAIN loads
        /\ lastResolved' = events
        /\ staleApplied' = loads[i].stale
        /\ loads' = Remaining(i, TRUE)
        /\ allEvents' = store
        /\ filteredEvents' = store
        /\ monthOptions' = populateMonthFilter(store, now)
        /\ monthSelectValue' = All
        /\ sourceOptions' = populateSourceFilter(store)
        /\ currentSource' = All
        /\ Render(store, store)
        /\ loadEventsFinally
        /\ UNCHANGED now
        /\ filterFrame

\* a store emptied by a load that brought no list
StoreEmptied(old) == <<>>

\* loadEvents assigns allEvents inside if (data.success) only: without a list
\* the store is the one held
StoreAfterFailure(old) == old

\* call i receives a body whose success is not truthy
loadEventsNoSuccess(i) ==
    /\ i \in DOMAIN loads
    /\ loadEventsFinally
    /\ loads' = Remaining(i, FALSE)
    /\ allEvents' = StoreAfterFailure(allEvents)
    /\ UNCHANGED <<filteredEvents, currentSource, monthOptions, monthSelectValue,
                   sourceOptions, container, emptyShown, emptyHasClear, now, lastResolved,
                   staleApplied>>
    /\ filterFrame

\* the rows of #eventsContainer left where they are
ContainerKept(rows) == rows

\* showEmptyState(): the innerHTML of #eventsContainer after it
ContainerAfterError(rows) == <<>>

\* call i's fetch rejects or its body is not JSON: the catch block runs showEmptyState()
loadEventsError(i) ==
    /\ i \in DOMAIN loads
    /\ container' = ContainerAfterError(container)
    /\ emptyShown' = TRUE
    /\ loadEventsFinally
    /\ loads' = Remaining(i, FALSE)
    /\ allEvents' = StoreAfterFailure(allEvents)
    /\ UNCHANGED <<filteredEvents, currentSource, monthOptions, monthSelectValue,
                   sourceOptions, emptyHasClear, now, lastResolved, staleApplied>>
    /\ filterFrame

(***************************************************************************)
(* The page's handlers: event detail, bookmarks and saves.                  *)
(***************************************************************************)
\* a click on row idx of #eventsContainer: showEventDetail(filteredEvents[idx]);
\* a displayed modal covers the rows
rowClick(idx) ==
    /\ container # <<>>
    /\ idx \in DOMAIN filteredEvents
    /\ ~eventModal.open /\ ~profileOpen /\ ~addModal.open
    /\ eventModal' = EventDetail(currentUser, filteredEvents[idx])
    /\ UNCHANGED <<currentUser, bookmarkedIds, storedBookmarks, savedEventIds, serverSaves,
                   profileBody, profileOpen, otpEmail, profileBtn, toast, pending,
                   lastMigration, failedVerifies>>
    /\ UNCHANGED <<filterVars, restVars>>

\* closeModal(): the close button, Escape or a click on the backdrop
closeModal ==
    /\ eventModal.open
    /\ eventModal' = [eventModal EXCEPT !.open = FALSE]
    /\ UNCHANGED <<currentUser, bookmarkedIds, storedBookmarks, savedEventIds, serverSaves,
                   profileBody, profileOpen, otpEmail, profileBtn, toast, pending,
                   lastMigration, failedVerifies>>
    /\ UNCHANGED <<filterVars, restVars>>

\* the bookmark set with the id added, held or not
BookmarksAppended(ids, id) == Append(ids, id)

\* the bookmark set after toggleBookmark(id)
BookmarksToggled(ids, id) ==
    LET Other(x) == x # id
    IN  IF id \in Range(ids) THEN SelectSeq(ids, Other) ELSE Append(ids, id)

\* toggleBookmark(eventId)
toggleBookmark(id) ==
    /\ bookmarkedIds' = BookmarksToggled(bookmarkedIds, id)
    /\ toast' = IF id \in Range(bookmarkedIds) THEN "Bookmark removed." ELSE "Event bookmarked!"
    /\ storedBookmarks' = saveBookmarks(bookmarkedIds')
    /\ IF id \in Range(allEvents)
       THEN eventModal' = EventDetail(currentUser, id)
       ELSE UNCHANGED eventModal

\* the mirror a request to add or remove a save leaves before its response
MirrorOptimistic(saved, id) == IF id \in saved THEN saved \ {id} ELSE saved \cup {id}

\* toggleSave up to its await: savedEventIds is read, not written
MirrorOnRequest(saved, id) == saved

\* toggleSave(eventId) up to its await
toggleSave(id) ==
    IF currentUser = NoUser
    THEN /\ toggleBookmark(id)
         /\ UNCHANGED <<savedEventIds, pending>>
    ELSE /\ CanFetch
         /\ pending' = Sent(Request("toggleSave", id, id \in savedEventIds))
         /\ savedEventIds' = MirrorOnRequest(savedEventIds, id)
         /\ UNCHANGED <<bookmarkedIds, storedBookmarks, toast, eventModal>>

\* a click on the bookmark button of the event modal
bookmarkClick ==
    /\ eventModal.open
    /\ eventModal.onclick = "toggleBookmark"
    /\ toggleBookmark(eventModal.id)
    /\ UNCHANGED <<currentUser, savedEventIds, serverSaves, profileBody, profileOpen,
                   otpEmail, profileBtn, pending, lastMigration, failedVerifies>>
    /\ UNCHANGED <<filterVars, restVars>>

\* a click on the save button of the event modal
saveClick ==
    /\ eventModal.open
    /\ eventModal.onclick = "toggleSave"
    /\ toggleSave(eventModal.id)
    /\ UNCHANGED <<currentUser, serverSaves, profileBody, profileOpen, otpEmail, profileBtn,
                   lastMigration, failedVerifies>>
    /\ UNCHANGED <<filterVars, restVars>>

\* a click on the remove button of a row of the saves modal:
\* toggleSave(id); showSavesModal()
savedRowRemove(id) ==
    /\ profileOpen
    /\ profileBody.kind = "saves"
    /\ id \in profileBody.rows
    /\ toggleSave(id)
    /\ profileBody' = IF currentUser # NoUser
                      THEN SavesBody(allEvents, savedEventIds')
                      ELSE SignInBody
    /\ otpEmail' = <<>>
    /\ UNCHANGED <<currentUser, serverSaves, profileOpen, profileBtn, lastMigration,
                   failedVerifies>>
    /\ UNCHANGED <<filterVars, restVars>>

\* the mirror after the response to a toggleSave request
MirrorAfterToggle(saved, id, isSaved, outcome) ==
    IF outcome # "success" THEN saved
    ELSE IF isSaved THEN saved \ {id}
    ELSE saved \cup {id}

\* the response to a toggleSave request
toggleSaveResponse(r, outcome) ==
    /\ r \in InFlight
    /\ r.kind = "toggleSave"
    /\ pending' = Answered(r)
    /\ savedEventIds' = MirrorAfterToggle(savedEventIds, r.id, r.flag, outcome)
    /\ CASE outcome = "success" /\ r.flag ->
                /\ serverSaves' = IF Handled(r) THEN serverSaves
                                  ELSE ServerUnsave(serverSaves, r.id)
                /\ toast' = "Removed from saves."
         [] outcome = "success" /\ ~r.flag ->
                /\ Handled(r) \/ Len(serverSaves) < MaxSaves
                /\ serverSaves' = IF Handled(r) THEN serverSaves
                                  ELSE ServerSave(serverSaves, r.id)
                /\ toast' = "Event saved!"
         [] outcome = "failure" ->
                /\ ~Handled(r)
                /\ UNCHANGED <<serverSaves, toast>>
         [] outcome = "error" ->
                /\ toast' = "Could not update saves. Try again."
                /\ UNCHANGED serverSaves
    /\ IF outcome # "error" /\ r.id \in Range(allEvents)
       THEN eventModal' = EventDetail(currentUser, r.id)
       ELSE UNCHANGED eventModal
    /\ UNCHANGED <<currentUser, bookmarkedIds, storedBookmarks, profileBody, profileOpen,
                   otpEmail, profileBtn, lastMigration, failedVerifies>>
    /\ UNCHANGED <<filterVars, restVars>>

\* the mirror a load of the saves leaves when its response is ignored
MirrorKept(saved, rows, outcome) == saved

\* loadUserSaves: savedEventIds = new Set(data.event_ids) when data.success
MirrorAfterLoad(saved, rows, outcome) == IF outcome = "success" THEN Range(rows) ELSE saved

\* the response to loadUserSaves' fetch, and what its caller does next:
\* updateProfileBtn(), and the welcome of onLoginSuccess
loadUserSavesResponse(r, outcome) ==
    /\ r \in InFlight
    /\ r.kind = "saves"
    /\ pending' = Answered(r)
    /\ savedEventIds' = MirrorAfterLoad(savedEventIds,
                                        IF Handled(r) THEN r.answer.rows ELSE serverSaves,
                                        outcome)
    /\ profileBtn' = ProfileLabel(currentUser)
    /\ toast' = IF r.flag THEN "Welcome" ELSE toast
    /\ UNCHANGED <<currentUser, bookmarkedIds, storedBookmarks, serverSaves, profileBody,
                   profileOpen, otpEmail, eventModal, lastMigration, failedVerifies>>
    /\ UNCHANGED <<filterVars, restVars>>

\* the server handles a toggleSave, a POST of the migration loop or a load
\* of the saves of the signed-in user, before any sign-out is asked for: the
\* rows are changed, or read, at this moment, and the response sets out
serverAnswers(r) ==
    /\ r \in InFlight
    /\ r.kind \in {"toggleSave", "migrate", "saves"}
    /\ ~Handled(r)
    /\ currentUser # NoUser
    /\ \A q \in InFlight : q.kind # "logout"
    /\ r.kind = "migrate" \/ (r.kind = "toggleSave" /\ ~r.flag) => Len(serverSaves) < MaxSaves
    /\ serverSaves' = CASE r.kind = "saves" -> serverSaves
                        [] r.kind = "migrate" -> ServerSave(serverSaves, r.ids[r.i])
                        [] r.kind = "toggleSave" /\ r.flag -> ServerUnsave(serverSaves, r.id)
                        [] r.kind = "toggleSave" /\ ~r.flag -> ServerSave(serverSaves, r.id)
    /\ pending' = Followed(r, [r EXCEPT !.answer = [at |-> "server", rows |-> serverSaves']])
    /\ UNCHANGED <<currentUser, bookmarkedIds, storedBookmarks, savedEventIds, profileBody,
                   profileOpen, otpEmail, eventModal, profileBtn, toast, lastMigration,
                   failedVerifies>>
    /\ UNCHANGED <<filterVars, restVars>>

(***************************************************************************)
(* The page's handlers: the session.                                        *)
(***************************************************************************)
\* currentUser after the response to /auth/me
UserAfterMe(user, outcome) == IF outcome = "logged_in" THEN User1 ELSE user

\* a restore that empties the bookmarks as a sign-in does
BookmarksClearedOnRestore(ids) == <<>>

\* initUserSession assigns currentUser and loads the saves: the bookmarks are
\* those loadBookmarks read
BookmarksAfterRestore(ids) == ids

\* the response to initUserSession's fetch
initUserSessionResponse(r, outcome) ==
    /\ r \in InFlight
    /\ r.kind = "me"
    /\ currentUser' = UserAfterMe(currentUser, outcome)
    /\ pending' = IF outcome = "logged_in"
                  THEN Followed(r, Request("saves", 0, FALSE))
                  ELSE Answered(r)
    /\ bookmarkedIds' = BookmarksAfterRestore(bookmarkedIds)
    /\ UNCHANGED <<storedBookmarks, savedEventIds, serverSaves, profileBody,
                   profileOpen, otpEmail, eventModal, profileBtn, toast, lastMigration,
                   failedVerifies>>
    /\ UNCHANGED <<filterVars, restVars>>

\* handleProfileBtn(): a click on #profileBtn, which a displayed modal covers
handleProfileBtn ==
    /\ ~eventModal.open /\ ~profileOpen
    /\ profileBody' = IF currentUser # NoUser
                      THEN SavesBody(allEvents, savedEventIds)
                      ELSE SignInBody
    /\ profileOpen' = TRUE
    /\ otpEmail' = <<>>
    /\ UNCHANGED <<currentUser, bookmarkedIds, storedBookmarks, savedEventIds, serverSaves,
                   eventModal, profileBtn, toast, pending, lastMigration, failedVerifies>>
    /\ UNCHANGED <<filterVars, restVars>>

\* closeProfileModal(): a click on the backdrop of #profileModal
closeProfileModal ==
    /\ profileOpen
    /\ profileOpen' = FALSE
    /\ UNCHANGED <<currentUser, bookmarkedIds, storedBookmarks, savedEventIds, serverSaves,
                   profileBody, otpEmail, eventModal, profileBtn, toast, pending,
                   lastMigration, failedVerifies>>
    /\ UNCHANGED <<filterVars, restVars>>

\* sendOtp(resend) up to its await
sendOtp(value, resend) ==
    LET email == Trim(value)
    IN  IF ~Truthy(email) \/ ~Includes(email, <<"@">>)
        THEN /\ toast' = "Please enter a valid email address."
             /\ UNCHANGED pending
        ELSE /\ CanFetch
             /\ pending' = Sent(Request("sendOtp", 0, resend))
             /\ UNCHANGED toast

\* the user types an address and clicks Send Code
sendCodeClick(value) ==
    /\ profileOpen
    /\ profileBody.kind = "step1"
    /\ otpEmail' = value
    /\ sendOtp(value, FALSE)
    /\ UNCHANGED <<currentUser, bookmarkedIds, storedBookmarks, savedEventIds, serverSaves,
                   profileBody, profileOpen, eventModal, profileBtn, lastMigration,
                   failedVerifies>>
    /\ UNCHANGED <<filterVars, restVars>>

\* a click on Resend
resendClick ==
    /\ profileOpen
    /\ profileBody.kind = "step2"
    /\ sendOtp(otpEmail, TRUE)
    /\ UNCHANGED <<currentUser, bookmarkedIds, storedBookmarks, savedEventIds, serverSaves,
                   profileBody, profileOpen, otpEmail, eventModal, profileBtn, lastMigration,
                   failedVerifies>>
    /\ UNCHANGED <<filterVars, restVars>>

\* a form that goes to its second step whatever the response reports
StepAdvanced(body, outcome) ==
    IF body.kind \in {"step1", "step2"} THEN [body EXCEPT !.kind = "step2"] ELSE body

\* the form after the response to /auth/send-otp: the second step on success
StepAfterSend(body, outcome) ==
    IF outcome = "success" /\ body.kind \in {"step1", "step2"}
    THEN [body EXCEPT !.kind = "step2"]
    ELSE body

\* the response to sendOtp's fetch; with the form replaced, getElementById
\* returns null and the catch block reports
sendOtpResponse(r, outcome) ==
    /\ r \in InFlight
    /\ r.kind = "sendOtp"
    /\ pending' = Answered(r)
    /\ profileBody' = StepAfterSend(profileBody, outcome)
    /\ toast' = CASE outcome = "success" /\ profileBody.kind \in {"step1", "step2"} ->
                        IF r.flag THEN "New code sent!" ELSE toast
                  [] outcome = "success" /\ profileBody.kind \notin {"step1", "step2"} ->
                        "Could not connect to server."
                  [] outcome = "failure" -> "Could not send code. Try again."
                  [] outcome = "error" -> "Could not connect to server."
    /\ UNCHANGED <<currentUser, bookmarkedIds, storedBookmarks, savedEventIds, serverSaves,
                   profileOpen, otpEmail, eventModal, profileBtn, lastMigration,
                   failedVerifies>>
    /\ UNCHANGED <<filterVars, restVars>>

\* the user types a code and clicks Verify Code: verifyOtp() up to its await
verifyCodeClick(value) ==
    LET code == Trim(value)
    IN  /\ profileOpen
        /\ profileBody.kind = "step2"
        /\ IF ~Truthy(code) \/ Len(code) # 6
           THEN /\ toast' = "Please enter the 6-digit code."
                /\ UNCHANGED pending
           ELSE /\ CanFetch
                /\ pending' = Sent(Request("verifyOtp", 0, FALSE))
                /\ UNCHANGED toast
        /\ UNCHANGED <<currentUser, bookmarkedIds, storedBookmarks, savedEventIds,
                       serverSaves, profileBody, profileOpen, otpEmail, eventModal,
                       profileBtn, lastMigration, failedVerifies>>
        /\ UNCHANGED <<filterVars, restVars>>

\* the failures counted after one more
Counted(n) == IF n < MaxFailed THEN n + 1 ELSE n

\* onLoginSuccess(user) up to its first await: the first POST of the migration
\* loop, or with no bookmark the fetch of loadUserSaves
onLoginSuccess(r, user) ==
    /\ currentUser' = user
    /\ profileOpen' = FALSE
    /\ pending' = IF Len(bookmarkedIds) > 0
                  THEN Followed(r, Migration(bookmarkedIds, 1, {}))
                  ELSE Followed(r, Request("saves", 0, TRUE))
    /\ UNCHANGED <<toast, failedVerifies>>

\* the response to verifyOtp's fetch
verifyOtpResponse(r, outcome) ==
    /\ r \in InFlight
    /\ r.kind = "verifyOtp"
    /\ CASE outcome = "success" -> onLoginSuccess(r, User1)
         [] outcome = "failure" ->
                /\ toast' = "Invalid or expired code."
                /\ failedVerifies' = Counted(failedVerifies)
                /\ pending' = Answered(r)
                /\ UNCHANGED <<currentUser, profileOpen>>
         [] outcome = "error" ->
                /\ toast' = "Could not connect to server."
                /\ pending' = Answered(r)
                /\ UNCHANGED <<currentUser, profileOpen, failedVerifies>>
    /\ UNCHANGED <<bookmarkedIds, storedBookmarks, savedEventIds, serverSaves, profileBody,
                   otpEmail, eventModal, profileBtn, lastMigration>>
    /\ UNCHANGED <<filterVars, restVars>>

\* a bookmark set that keeps the ids whose POST failed
BookmarksKeepFailed(ids, failed) == LET Failed(x) == x \in failed IN SelectSeq(ids, Failed)

\* bookmarkedIds = new Set() after the loop, whatever the POSTs returned
BookmarksAfterMigration(ids, failed) == <<>>

\* the POST of the migration loop settles (the fetch resolves, whatever its
\* status, or rejects into the empty catch); the loop goes on to the next id,
\* or ends: the bookmarks are cleared and loadUserSaves is called
migrationResponse(r, outcome) ==
    LET id == r.ids[r.i]
        failed == IF outcome = "accepted" THEN r.failed ELSE r.failed \cup {id}
    IN  /\ r \in InFlight
        /\ r.kind = "migrate"
        /\ outcome = "rejected" => ~Handled(r)
        /\ IF outcome = "accepted" /\ ~Handled(r)
           THEN /\ Len(serverSaves) < MaxSaves
                /\ serverSaves' = ServerSave(serverSaves, id)
           ELSE UNCHANGED serverSaves
        /\ IF r.i < Len(r.ids)
           THEN /\ pending' = Followed(r, Migration(r.ids, r.i + 1, failed))
                /\ UNCHANGED <<bookmarkedIds, storedBookmarks, lastMigration, profileBtn,
                               toast>>
           ELSE /\ bookmarkedIds' = BookmarksAfterMigration(r.ids, failed)
                /\ storedBookmarks' = saveBookmarks(bookmarkedIds')
                /\ lastMigration' = [ids |-> r.ids, failed |-> failed]
                /\ IF currentUser = NoUser
                   THEN /\ pending' = Answered(r)
                        /\ profileBtn' = ProfileLabel(currentUser)
                        /\ toast' = "Welcome"
                   ELSE /\ pending' = Followed(r, Request("saves", 0, TRUE))
                        /\ UNCHANGED <<profileBtn, toast>>
        /\ UNCHANGED <<currentUser, savedEventIds, profileBody, profileOpen, otpEmail,
                       eventModal, failedVerifies>>
        /\ UNCHANGED <<filterVars, restVars>>

\* a click on Sign Out: logoutUser() up to its await
signOutClick ==
    /\ profileOpen
    /\ profileBody.kind = "saves"
    /\ CanFetch
    /\ pending' = Sent(Request("logout", 0, FALSE))
    /\ UNCHANGED <<currentUser, bookmarkedIds, storedBookmarks, savedEventIds, serverSaves,
                   profileBody, profileOpen, otpEmail, eventModal, profileBtn, toast,
                   lastMigration, failedVerifies>>
    /\ UNCHANGED <<filterVars, restVars>>

\* the mirror left as it is at sign-out
MirrorLeftAtLogout(saved) == saved

\* logoutUser: savedEventIds = new Set()
MirrorAfterLogout(saved) == {}

\* logoutUser() after its fetch has resolved or rejected
logoutResponse(r) ==
    /\ r \in InFlight
    /\ r.kind = "logout"
    /\ pending' = Answered(r)
    /\ currentUser' = NoUser
    /\ savedEventIds' = MirrorAfterLogout(savedEventIds)
    /\ profileBtn' = ProfileLabel(NoUser)
    /\ profileOpen' = FALSE
    /\ toast' = "Signed out."
    /\ failedVerifies' = 0
    /\ UNCHANGED <<bookmarkedIds, storedBookmarks, serverSaves, profileBody, otpEmail,
                   eventModal, lastMigration>>
    /\ UNCHANGED <<filterVars, restVars>>

(***************************************************************************)
(* The page's handlers: admin mode.                                         *)
(***************************************************************************)
\* what prompt('Enter admin password:') returns: cancelled or empty, or a text
AdminPrompts == {<<>>, <<"p","w">>}

\* the answers to an admin request: refused for the token, done, not done
\* (a body whose success is not truthy), or no answer the handler can read
AdminStatuses == {"401", "403", "success", "failure", "error"}

\* what the admin handlers leave alone of identity, bookmarks and saves
sessionFrame ==
    UNCHANGED <<currentUser, bookmarkedIds, storedBookmarks, savedEventIds, serverSaves,
                profileBody, profileOpen, otpEmail, profileBtn, lastMigration,
                failedVerifies, parseVars, workerVars>>

\* and of the store and the filters, whether or not they start a load
storeFrame ==
    UNCHANGED <<allEvents, filteredEvents, currentCategory, currentMonth, currentSource,
                currentNeighborhood, searchInput, monthOptions, monthSelectValue,
                sourceOptions, container, emptyShown, emptyHasClear, now, lastResolved,
                staleApplied, localDates>>

noLoad == UNCHANGED <<loads, refreshDisabled, loadingShown>>

\* adminLogin(): the token is stored, the controls rendered
adminLogin(token) ==
    IF Truthy(token)
    THEN /\ adminToken' = token
         /\ addEventBtn' = TRUE
         /\ toast' = "Admin mode enabled"
    ELSE UNCHANGED <<adminToken, addEventBtn, toast>>

\* adminLogout(): the token is removed, the controls rendered
adminLogout ==
    /\ adminToken' = <<>>
    /\ addEventBtn' = FALSE
    /\ toast' = "Admin mode disabled"

\* handleAdminBtn(): a click on #adminBtn, answered in the prompt or the confirm
handleAdminBtn(token, confirmed) ==
    /\ ~eventModal.open /\ ~profileOpen /\ ~addModal.open
    /\ IF isAdminMode
       THEN IF confirmed THEN adminLogout ELSE UNCHANGED <<adminToken, addEventBtn, toast>>
       ELSE adminLogin(token)
    /\ UNCHANGED <<addModal, scrapeDisabled, eventModal, pending>>
    /\ sessionFrame /\ storeFrame /\ noLoad

\* openAddEventModal(): a click on "+ Add Event"
openAddEventModal ==
    /\ addEventBtn
    /\ ~eventModal.open /\ ~profileOpen /\ ~addModal.open
    /\ addModal' = [open |-> TRUE, eventId |-> 0]
    /\ UNCHANGED <<adminToken, addEventBtn, scrapeDisabled, eventModal, toast, pending>>
    /\ sessionFrame /\ storeFrame /\ noLoad

\* openEditEventModal(eventId): a click on the Edit button of the event modal
openEditEventModal ==
    /\ eventModal.open /\ eventModal.admin
    /\ IF eventModal.id \in Range(allEvents)
       THEN /\ eventModal' = [eventModal EXCEPT !.open = FALSE]
            /\ addModal' = [open |-> TRUE, eventId |-> eventModal.id]
       ELSE UNCHANGED <<eventModal, addModal>>
    /\ UNCHANGED <<adminToken, addEventBtn, scrapeDisabled, toast, pending>>
    /\ sessionFrame /\ storeFrame /\ noLoad

\* closeAddEventModal(): Escape, or the form's cancel button
closeAddEventModal ==
    /\ addModal.open
    /\ addModal' = [addModal EXCEPT !.open = FALSE]
    /\ UNCHANGED <<adminToken, addEventBtn, scrapeDisabled, eventModal, toast, pending>>
    /\ sessionFrame /\ storeFrame /\ noLoad

\* handleEventFormSubmit(e) up to its await: POST /events, or PUT /events/<id>
\* when #eventId holds an id
handleEventFormSubmit ==
    /\ addModal.open
    /\ CanFetch
    /\ pending' = Sent(WithToken(Request("saveEvent", addModal.eventId, addModal.eventId # 0),
                                 adminToken))
    /\ UNCHANGED <<adminVars, eventModal, toast>>
    /\ sessionFrame /\ storeFrame /\ noLoad

\* handleEventFormSubmit(e) after its await
handleEventFormSubmitResponse(r, status) ==
    /\ r \in InFlight
    /\ r.kind = "saveEvent"
    /\ CASE status \in {"401", "403"} ->
                /\ adminLogout
                /\ pending' = Answered(r)
                /\ UNCHANGED addModal /\ noLoad
         [] status = "success" ->
                /\ addModal' = [addModal EXCEPT !.open = FALSE]
                /\ loadEventsStarted
                /\ pending' = Followed(r, Request("saveEventReloaded", r.id, r.flag))
                /\ UNCHANGED <<adminToken, addEventBtn, toast>>
         [] status = "failure" ->
                /\ toast' = "Error: "
                /\ pending' = Answered(r)
                /\ UNCHANGED <<adminToken, addEventBtn, addModal>> /\ noLoad
         [] status = "error" ->
                /\ toast' = "Failed to save event. Is the server running?"
                /\ pending' = Answered(r)
                /\ UNCHANGED <<adminToken, addEventBtn, addModal>> /\ noLoad
    /\ UNCHANGED <<scrapeDisabled, eventModal>>
    /\ sessionFrame /\ storeFrame

\* deleteEvent(eventId) up to its await: a click on the Delete button of the
\* event modal, answered in the confirm
deleteEvent(confirmed) ==
    /\ eventModal.open /\ eventModal.admin
    /\ IF confirmed
       THEN /\ CanFetch
            /\ pending' = Sent(WithToken(Request("deleteEvent", eventModal.id, FALSE),
                                         adminToken))
       ELSE UNCHANGED pending
    /\ UNCHANGED <<adminVars, eventModal, toast>>
    /\ sessionFrame /\ storeFrame /\ noLoad

\* deleteEvent(eventId) after its await
deleteEventResponse(r, status) ==
    /\ r \in InFlight
    /\ r.kind = "deleteEvent"
    /\ CASE status \in {"401", "403"} ->
                /\ adminLogout
                /\ pending' = Answered(r)
                /\ UNCHANGED eventModal /\ noLoad
         [] status = "success" ->
                /\ eventModal' = [eventModal EXCEPT !.open = FALSE]
                /\ loadEventsStarted
                /\ pending' = Followed(r, Request("deleteEventReloaded", r.id, FALSE))
                /\ UNCHANGED <<adminToken, addEventBtn, toast>>
         [] status = "failure" ->
                /\ toast' = "Error: "
                /\ pending' = Answered(r)
                /\ UNCHANGED <<adminToken, addEventBtn, eventModal>> /\ noLoad
         [] status = "error" ->
                /\ toast' = "Failed to delete event."
                /\ pending' = Answered(r)
                /\ UNCHANGED <<adminToken, addEventBtn, eventModal>> /\ noLoad
    /\ UNCHANGED <<scrapeDisabled, addModal>>
    /\ sessionFrame /\ storeFrame

\* scrapeNewEvents() up to its await: a click on #scrapeBtn
scrapeNewEvents ==
    /\ ~scrapeDisabled
    /\ CanFetch
    /\ scrapeDisabled' = TRUE
    /\ pending' = Sent(Request("scrape", 0, FALSE))
    /\ UNCHANGED <<adminToken, addEventBtn, addModal, eventModal, toast>>
    /\ sessionFrame /\ storeFrame /\ noLoad

\* scrapeNewEvents() after its await.  The status of the response is not
\* read: a refusal whose body is JSON is a body whose success is not truthy,
\* and one whose body is not JSON makes response.json() throw.
scrapeNewEventsResponse(r, status, json) ==
    /\ r \in InFlight
    /\ r.kind = "scrape"
    /\ CASE status = "success" ->
                /\ toast' = "Scraped new events!"
                /\ loadEventsStarted
                /\ pending' = Followed(r, Request("scrapeReloaded", 0, FALSE))
                /\ UNCHANGED scrapeDisabled
         [] status = "failure" \/ (status \in {"401", "403"} /\ json) ->
                /\ scrapeDisabled' = FALSE
                /\ pending' = Answered(r)
                /\ UNCHANGED toast /\ noLoad
         [] status = "error" \/ (status \in {"401", "403"} /\ ~json) ->
                /\ toast' = "Scraping failed"
                /\ scrapeDisabled' = FALSE
                /\ pending' = Answered(r)
                /\ noLoad
    /\ UNCHANGED <<adminToken, addEventBtn, addModal, eventModal>>
    /\ sessionFrame /\ storeFrame

\* what follows `await loadEvents()` in the three handlers, once the load has
\* settled (here: once no load is in flight)
afterReload(r) ==
    /\ r \in InFlight
    /\ r.kind \in {"saveEventReloaded", "deleteEventReloaded", "scrapeReloaded"}
    /\ loads = <<>>
    /\ pending' = Answered(r)
    /\ CASE r.kind = "saveEventReloaded" ->
                /\ toast' = IF r.flag THEN "Event updated!" ELSE "Event added!"
                /\ UNCHANGED scrapeDisabled
         [] r.kind = "deleteEventReloaded" ->
                /\ toast' = "Event deleted."
                /\ UNCHANGED scrapeDisabled
         [] r.kind = "scrapeReloaded" ->
                /\ scrapeDisabled' = FALSE
                /\ UNCHANGED toast
    /\ UNCHANGED <<adminToken, addEventBtn, addModal, eventModal>>
    /\ sessionFrame /\ storeFrame /\ noLoad

(***************************************************************************)
(* The service worker.                                                      *)
(***************************************************************************)
\* the greatest version of the content the server answers with
MaxVersion == 2

\* the payloads of its responses
Payloads == 1..MaxVersion

\* the body of a response whose status is an error (HTTP 500)
ErrorBody == MaxVersion + 1

\* what fetch(event.request) resolves with: a response of any status
Responses == Payloads \cup {ErrorBody}

\* the greatest number of fetch events waiting for the network
MaxFetches == 2

\* const CACHE_NAME
CACHE_NAME == <<"p","h","i","l","l","y","-","c","a","l","e","n","d","a","r","-","v","1","4">>

\* the names of the caches of the origin: the one of this worker and the one
\* an earlier version of it has left
CacheNames == {CACHE_NAME, <<"p","h","i","l","l","y","-","c","a","l","e","n","d","a","r","-","v","1","3">>}

\* const urlsToCache
urlsToCache == {<<"/">>, <<"/","s","t","a","t","i","c","/","s","t","y","l","e","s",".","c","s","s","?","v","=","1","4">>, <<"/","s","t","a","t","i","c","/","a","p","p",".","j","s","?","v","=","9">>}

\* the URLs the page requests
Urls == urlsToCache \cup {<<"/","e","v","e","n","t","s","/","u","p","c","o","m","i","n","g">>, <<"/","e","v","e","n","t","s","/","1">>, <<"/","p","r","o","f","i","l","e","/","s","a","v","e","s">>}

\* the requests of the page that reach the worker: the script, the list of
\* events, the change of an event and the saves
Requests ==
    {[url |-> <<"/","s","t","a","t","i","c","/","a","p","p",".","j","s","?","v","=","9">>, method |-> "GET"],
     [url |-> <<"/","e","v","e","n","t","s","/","u","p","c","o","m","i","n","g">>, method |-> "GET"],
     [url |-> <<"/","e","v","e","n","t","s","/","1">>, method |-> "PUT"],
     [url |-> <<"/","p","r","o","f","i","l","e","/","s","a","v","e","s">>, method |-> "GET"]}

\* event.request.url.includes('/events')
IsEventsBearing(url) == Includes(url, <<"/","e","v","e","n","t","s">>)

\* a cache without entries (0: no entry for the URL)
NoEntries == [u \in Urls |-> 0]

\* the response of a fetch event that has not been answered
NoResponse == [url |-> <<>>, method |-> "GET", payload |-> 0, from |-> "none", offline |-> FALSE]

\* no worker is registered and the origin has no cache
NoWorker ==
    /\ phase = "none"
    /\ cacheNames = {}
    /\ cacheEntries = [n \in CacheNames |-> NoEntries]
    /\ online = TRUE
    /\ fetching = {}
    /\ putting = {}
    /\ respondedWith = NoResponse
    /\ lastPut = NoEntries

\* what the worker's handlers leave alone: the page
pageFrame == UNCHANGED <<filterVars, authVars, parseVars, adminVars>>

\* every cache is kept
CachesKeptOnActivate(names) == names

\* the activate listener: the caches left once every caches.delete has resolved
CachesAfterActivate(names) == {n \in names : n = CACHE_NAME}

\* a URL that has an entry keeps it
EntriesKeepFirst(entries, url, payload) ==
    IF entries[url] # 0 THEN entries ELSE [entries EXCEPT ![url] = payload]

\* cache.put(request, response): the entries of the cache after it
EntriesAfterPut(entries, url, payload) == [entries EXCEPT ![url] = payload]

\* every response of the network is cached
AnyUrl(url) == TRUE

\* the fetch listener's test of the request before caches.open
WritesResponse(url) == IsEventsBearing(url)

\* no entry ever matches
NoMatches(url, method) == {}

\* caches.match(request): the payloads of the entries that match, in any cache
Matches(url, method) ==
    IF method # "GET" THEN {}
    ELSE {cacheEntries[n][url] : n \in {c \in cacheNames : cacheEntries[c][url] # 0}}

\* the install listener when every URL of urlsToCache is fetched: caches.open
\* creates the cache, cache.addAll writes the responses
install(payload) ==
    /\ phase = "parsed"
    /\ online
    /\ cacheNames' = cacheNames \cup {CACHE_NAME}
    /\ cacheEntries' = [cacheEntries EXCEPT ![CACHE_NAME] =
                            [u \in Urls |-> IF u \in urlsToCache THEN payload ELSE @[u]]]
    /\ phase' = "installed"
    /\ UNCHANGED <<online, fetching, putting, respondedWith, lastPut>>
    /\ pageFrame

\* the install listener when a fetch of cache.addAll fails: nothing is
\* written, the promise rejects and the worker is discarded; the browser
\* installs it again at the next registration
installFailed ==
    /\ phase = "parsed"
    /\ ~online
    /\ cacheNames' = cacheNames \cup {CACHE_NAME}
    /\ UNCHANGED <<phase, cacheEntries, online, fetching, putting,
                   respondedWith, lastPut>>
    /\ pageFrame

\* the activate listener; fetch events are dispatched once it has settled
activate ==
    /\ phase = "installed"
    /\ cacheNames' = CachesAfterActivate(cacheNames)
    /\ cacheEntries' = [n \in CacheNames |->
                            IF n \in cacheNames' THEN cacheEntries[n] ELSE NoEntries]
    /\ phase' = "activated"
    /\ UNCHANGED <<online, fetching, putting, respondedWith, lastPut>>
    /\ pageFrame

\* the fetch listener up to fetch(event.request): a match is the response,
\* no match sends the request to the network
fetchEvent(request) ==
    /\ phase = "activated"
    /\ IF Matches(request.url, request.method) # {}
       THEN /\ \E payload \in Matches(request.url, request.method) :
                    respondedWith' = [url |-> request.url, method |-> request.method,
                                      payload |-> payload, from |-> "cache",
                                      offline |-> ~online]
            /\ UNCHANGED fetching
       ELSE /\ Cardinality(fetching) < MaxFetches
            /\ fetching' = fetching \cup {request}
            /\ UNCHANGED respondedWith
    /\ UNCHANGED <<phase, cacheNames, cacheEntries, online, putting, lastPut>>
    /\ pageFrame

\* the fetch listener after fetch(event.request) has resolved: the response
\* is passed on, after caches.open and the call of cache.put for a request
\* that is written; cache.put is not awaited, and rejects for a request that
\* is not a GET
fetchResolved(f, payload) ==
    /\ f \in fetching
    /\ online
    /\ fetching' = fetching \ {f}
    /\ respondedWith' = [url |-> f.url, method |-> f.method, payload |-> payload,
                         from |-> "network", offline |-> FALSE]
    /\ IF WritesResponse(f.url)
       THEN /\ cacheNames' = cacheNames \cup {CACHE_NAME}
            /\ putting' = IF f.method = "GET"
                          THEN putting \cup {[url |-> f.url, payload |-> payload]}
                          ELSE putting
       ELSE UNCHANGED <<cacheNames, putting>>
    /\ UNCHANGED <<phase, cacheEntries, online, lastPut>>
    /\ pageFrame

\* the fetch listener after fetch(event.request) has rejected: so does the
\* promise given to respondWith
fetchRejected(f) ==
    /\ f \in fetching
    /\ ~online
    /\ fetching' = fetching \ {f}
    /\ respondedWith' = [url |-> f.url, method |-> f.method, payload |-> 0,
                         from |-> "error", offline |-> TRUE]
    /\ UNCHANGED <<phase, cacheNames, cacheEntries, online, putting, lastPut>>
    /\ pageFrame

\* a cache.put of the fetch listener resolves
putResolved(p) ==
    /\ p \in putting
    /\ putting' = putting \ {p}
    /\ cacheEntries' = [cacheEntries EXCEPT ![CACHE_NAME] = EntriesAfterPut(@, p.url, p.payload)]
    /\ lastPut' = [lastPut EXCEPT ![p.url] = p.payload]
    /\ UNCHANGED <<phase, cacheNames, online, fetching, respondedWith>>
    /\ pageFrame

\* the device loses or regains the network
connectionChanged ==
    /\ online' = ~online
    /\ UNCHANGED <<phase, cacheNames, cacheEntries, fetching, putting,
                   respondedWith, lastPut>>
    /\ pageFrame

\* identity, bookmarks and saves once the DOMContentLoaded handler has run:
\* loadBookmarks has read the stored value, initUserSession awaits /auth/me
SessionLoaded(raw, rows) ==
    /\ currentUser = NoUser
    /\ bookmarkedIds = loadBookmarks(raw)
    /\ storedBookmarks = raw
    /\ savedEventIds = {}
    /\ serverSaves = rows
    /\ profileBody = [kind |-> "empty", rows |-> {}]
    /\ profileOpen = FALSE
    /\ otpEmail = <<>>
    /\ eventModal = [open |-> FALSE, onclick |-> "none", id |-> 0, admin |-> FALSE]
    /\ profileBtn = ProfileLabel(NoUser)
    /\ toast = ""
    /\ pending = SetToBag({Request("me", 0, FALSE)})
    /\ lastMigration = [ids |-> <<>>, failed |-> {}]
    /\ failedVerifies = 0

\* no call of parseLocalDate is followed yet
NoParse ==
    /\ dateStr = Undefined
    /\ parsedDate = InvalidDate
    /\ eventTime = <<>>

\* admin mode once the DOMContentLoaded handler has run renderAdminControls()
\* in a tab that holds the token or none
AdminLoaded(token) ==
    /\ adminToken = token
    /\ addEventBtn = Truthy(token)
    /\ addModal = [open |-> FALSE, eventId |-> 0]
    /\ scrapeDisabled = FALSE

\* everything but the store, the filters and the session, in a tab new to the site
RestLoaded == NoParse /\ AdminLoaded(<<>>) /\ NoWorker

\* the store and the filters once the DOMContentLoaded handler has run: the first
\* loadEvents is in flight
StoreLoaded ==
    /\ allEvents = <<>>
    /\ filteredEvents = <<>>
    /\ currentCategory = "all"
    /\ currentMonth = All
    /\ currentSource = All
    /\ currentNeighborhood = All
    /\ searchInput = <<>>
    /\ monthOptions = <<>>
    /\ monthSelectValue = All
    /\ sourceOptions = <<>>
    /\ container = <<>>
    /\ emptyShown = FALSE
    /\ emptyHasClear = FALSE
    /\ loadingShown = TRUE
    /\ refreshDisabled = TRUE
    /\ loads = <<[stale |-> FALSE]>>
    /\ lastResolved = <<>>
    /\ staleApplied = FALSE

\* the page once the DOMContentLoaded handler has run, its events' start dates
\* being those of the pool
PageLoaded ==
    /\ StoreLoaded
    /\ now = Now1
    /\ localDates = ParsedStart
    /\ RestLoaded

\* a first visit: nothing stored, no save on the server
FilterInit == PageLoaded /\ SessionLoaded(Null, <<>>)

\* The filters with loads started from the refresh button, which is disabled
\* while a load is in flight.
FilterNext ==
    \/ \E category \in CategoryInputs : handleFilter(category)
    \/ \E value \in Range(monthOptions) \cup {All} : handleMonthFilter(value)
    \/ \E value \in Range(sourceOptions) \cup {All} : handleSourceFilter(value)
    \/ \E neighborhood \in NeighborhoodInputs : handleNeighborhoodFilter(neighborhood)
    \/ clearFilters
    \/ \E value \in QueryInputs : handleSearch(value)
    \/ refreshEvents
    \/ \E i \in DOMAIN loads, events \in EventLists : loadEventsSuccess(i, events)
    \/ \E i \in DOMAIN loads : loadEventsNoSuccess(i)
    \/ \E i \in DOMAIN loads : loadEventsError(i)

FilterSpec == FilterInit /\ [][FilterNext]_vars

\* the clock of the device passes midnight: new Date() now gives the later
\* instant, and nothing of the page changes
midnightPasses ==
    /\ now = Now1
    /\ now' = Now2
    /\ UNCHANGED <<allEvents, filteredEvents, currentCategory, currentMonth, currentSource,
                   currentNeighborhood, searchInput, monthOptions, monthSelectValue,
                   sourceOptions, container, emptyShown, emptyHasClear, loadingShown,
                   refreshDisabled, loads, lastResolved, staleApplied, localDates>>
    /\ UNCHANGED <<authVars, restVars>>

\* a first visit on either of the two days of the clock
RenderInit ==
    /\ StoreLoaded
    /\ now \in Instants
    /\ localDates = ParsedStart
    /\ RestLoaded
    /\ SessionLoaded(Null, <<>>)

\* The list as rendered on either day and over midnight, under the category,
\* month and source filters, with loads started from the refresh button.
RenderNext ==
    \/ midnightPasses
    \/ \E category \in CategoryInputs : handleFilter(category)
    \/ \E value \in Range(monthOptions) \cup {All} : handleMonthFilter(value)
    \/ \E value \in Range(sourceOptions) \cup {All} : handleSourceFilter(value)
    \/ refreshEvents
    \/ \E i \in DOMAIN loads, events \in EventLists : loadEventsSuccess(i, events)

RenderSpec == RenderInit /\ [][RenderNext]_vars

\* Loads started from the refresh button and from the five-minute interval,
\* which overlap, with the category and source filters.
LoadNext ==
    \/ refreshEvents
    \/ checkForUpdates
    \/ \E i \in DOMAIN loads, events \in EventLists : loadEventsSuccess(i, events)
    \/ \E i \in DOMAIN loads : loadEventsNoSuccess(i)
    \/ \E i \in DOMAIN loads : loadEventsError(i)
    \/ \E category \in CategoryInputs : handleFilter(category)
    \/ \E value \in Range(sourceOptions) \cup {All} : handleSourceFilter(value)

LoadSpec == FilterInit /\ [][LoadNext]_vars

\* a visit with a session cookie or none, by a user with one save on the server
SessionInit == PageLoaded /\ SessionLoaded(Null, <<1>>)

\* The session: the check on page load, the one-time code, and sign-out.
SessionNext ==
    \/ \E r \in InFlight, outcome \in MeOutcomes : initUserSessionResponse(r, outcome)
    \/ \E r \in InFlight, outcome \in Outcomes : loadUserSavesResponse(r, outcome)
    \/ handleProfileBtn
    \/ closeProfileModal
    \/ \E value \in EmailInputs : sendCodeClick(value)
    \/ resendClick
    \/ \E r \in InFlight, outcome \in Outcomes : sendOtpResponse(r, outcome)
    \/ \E value \in CodeInputs : verifyCodeClick(value)
    \/ \E r \in InFlight, outcome \in Outcomes : verifyOtpResponse(r, outcome)
    \/ signOutClick
    \/ \E r \in InFlight : logoutResponse(r)

SessionSpec == SessionInit /\ [][SessionNext]_vars

\* Bookmarks and saves of the events of the first load, under the session the
\* check on page load restores, until sign-out.
SaveNext ==
    \/ \E events \in AuthLoadInputs : loadEventsSuccess(1, events)
    \/ \E idx \in DOMAIN filteredEvents : rowClick(idx)
    \/ closeModal
    \/ bookmarkClick
    \/ saveClick
    \/ \E id \in EventIds : savedRowRemove(id)
    \/ \E r \in InFlight, outcome \in Outcomes : toggleSaveResponse(r, outcome)
    \/ \E r \in InFlight, outcome \in Outcomes : loadUserSavesResponse(r, outcome)
    \/ \E r \in InFlight, outcome \in MeOutcomes : initUserSessionResponse(r, outcome)
    \/ handleProfileBtn
    \/ closeProfileModal
    \/ signOutClick
    \/ \E r \in InFlight : logoutResponse(r)

SaveSpec == SessionInit /\ [][SaveNext]_vars

\* a visit with a bookmark stored by an earlier one, of an event no longer listed
MigrationInit == PageLoaded /\ SessionLoaded(StoredBookmark, <<1>>)

\* Bookmarks made while anonymous, and the sign-in that migrates them, with a
\* server that sends the code and accepts it.
MigrationNext ==
    \/ \E events \in AuthLoadInputs : loadEventsSuccess(1, events)
    \/ \E idx \in DOMAIN filteredEvents : rowClick(idx)
    \/ closeModal
    \/ bookmarkClick
    \/ \E r \in InFlight, outcome \in MeOutcomes : initUserSessionResponse(r, outcome)
    \/ \E r \in InFlight, outcome \in Outcomes : loadUserSavesResponse(r, outcome)
    \/ handleProfileBtn
    \/ \E value \in EmailInputs : sendCodeClick(value)
    \/ \E r \in InFlight : sendOtpResponse(r, "success")
    \/ \E value \in CodeInputs : verifyCodeClick(value)
    \/ \E r \in InFlight : verifyOtpResponse(r, "success")
    \/ \E r \in InFlight, outcome \in SaveOutcomes : migrationResponse(r, outcome)

MigrationSpec == MigrationInit /\ [][MigrationNext]_vars

\* Saves and sign-out of a restored session whose responses overtake each
\* other: the server handles every request and every response arrives.
OverlapNext ==
    \/ \E events \in AuthLoadInputs : loadEventsSuccess(1, events)
    \/ \E idx \in DOMAIN filteredEvents : rowClick(idx)
    \/ closeModal
    \/ saveClick
    \/ \E r \in InFlight : initUserSessionResponse(r, "logged_in")
    \/ \E r \in InFlight : serverAnswers(r)
    \/ \E r \in InFlight : Handled(r) /\ toggleSaveResponse(r, "success")
    \/ \E r \in InFlight : Handled(r) /\ loadUserSavesResponse(r, "success")
    \/ handleProfileBtn
    \/ signOutClick
    \/ \E r \in InFlight : logoutResponse(r)

OverlapSpec == SessionInit /\ [][OverlapNext]_vars

\* A sign-in that migrates the bookmarks, and a sign-out before the
\* migration has ended: the server accepts every request and every response
\* arrives.
InterruptedNext ==
    \/ \E events \in AuthLoadInputs : loadEventsSuccess(1, events)
    \/ \E idx \in DOMAIN filteredEvents : rowClick(idx)
    \/ closeModal
    \/ bookmarkClick
    \/ \E r \in InFlight : initUserSessionResponse(r, "anonymous")
    \/ handleProfileBtn
    \/ \E value \in EmailInputs : sendCodeClick(value)
    \/ \E r \in InFlight : sendOtpResponse(r, "success")
    \/ \E value \in CodeInputs : verifyCodeClick(value)
    \/ \E r \in InFlight : verifyOtpResponse(r, "success")
    \/ \E r \in InFlight : serverAnswers(r)
    \/ \E r \in InFlight : Handled(r) /\ migrationResponse(r, "accepted")
    \/ \E r \in InFlight : Handled(r) /\ loadUserSavesResponse(r, "success")
    \/ signOutClick
    \/ \E r \in InFlight : logoutResponse(r)

InterruptedSpec == MigrationInit /\ [][InterruptedNext]_vars

\* parseLocalDate(dateStr) is called and returns
parseCall(s) ==
    /\ dateStr' = s
    /\ parsedDate' = localDates[s, now]
    /\ UNCHANGED <<eventTime, filterVars, authVars, adminVars, workerVars>>

\* a start with seconds counts as a time
hasTimeWithSeconds(d) == ~d.valid \/ d.h # 0 \/ d.mi # 0 \/ d.s # 0

\* createEventRow: startDate.getHours() !== 0 || startDate.getMinutes() !== 0;
\* both are NaN for an Invalid Date
hasTime(d) == ~d.valid \/ d.h # 0 \/ d.mi # 0

\* startDate.toLocaleTimeString('en-US', { hour: 'numeric', minute: '2-digit' })
toLocaleTimeString(d) ==
    IF ~d.valid THEN <<"I","n","v","a","l","i","d"," ","D","a","t","e">>
    ELSE IntToStr(IF d.h % 12 = 0 THEN 12 ELSE d.h % 12) \o <<":">> \o Pad2(d.mi)
            \o (IF d.h < 12 THEN <<" ","A","M">> ELSE <<" ","P","M">>)

\* the label of a row without time
TimeTBD == <<"T","i","m","e"," ","T","B","D">>

\* createEventRow(event, index) for an event whose start_date is s: the text
\* of the time column of the row
createEventRow(s) ==
    LET startDate == localDates[s, now]
    IN  /\ dateStr' = s
        /\ parsedDate' = startDate
        /\ eventTime' = IF hasTime(startDate) THEN toLocaleTimeString(startDate) ELSE TimeTBD
        /\ UNCHANGED <<filterVars, authVars, adminVars, workerVars>>

\* the start dates of the rows: both encodings of timestamps at and off
\* midnight, with and without seconds, no date, and a string of neither encoding
RowFields == [y : {2026}, mo : {2, 12}, d : {8, 18}, h : {0, 19}, mi : {0, 30}, s : {0, 45}]
RowInputs ==
    {IsoWire(f, <<"T">>, <<>>) : f \in RowFields} \cup {RfcWire(f) : f \in RowFields}
        \cup EmptyInputs \cup {<<"s","o","o","n">>}

\* the page at either instant, with the start dates of the rows parsed
RowInit ==
    /\ StoreLoaded
    /\ SessionLoaded(Null, <<>>)
    /\ now \in Instants
    /\ localDates = [s \in RowInputs, n \in Instants |-> parseLocalDate(s, n)]
    /\ NoParse
    /\ AdminLoaded(<<>>)
    /\ NoWorker

\* Rows built for events of those start dates.
RowNext == \E s \in RowInputs : createEventRow(s)

RowSpec == RowInit /\ [][RowNext]_vars

\* the page at either instant, with the strings the parser may be given
ParseInit ==
    /\ StoreLoaded
    /\ SessionLoaded(Null, <<>>)
    /\ now \in Instants
    /\ localDates = ParsedInputs
    /\ NoParse
    /\ AdminLoaded(<<>>)
    /\ NoWorker

\* Calls of parseLocalDate.
ParseNext == \E s \in DateInputs : parseCall(s)

ParseSpec == ParseInit /\ [][ParseNext]_vars

\* a tab in which the admin has entered a password
AdminInit == StoreLoaded /\ now = Now1 /\ localDates = ParsedStart /\ NoParse
                /\ AdminLoaded(<<"p","w">>) /\ SessionLoaded(Null, <<>>) /\ NoWorker

\* Admin mode and its requests, for an anonymous visitor.
AdminNext ==
    \/ \E events \in AuthLoadInputs : loadEventsSuccess(1, events)
    \/ loadEventsError(1)
    \/ \E r \in InFlight : initUserSessionResponse(r, "anonymous")
    \/ \E idx \in DOMAIN filteredEvents : rowClick(idx)
    \/ closeModal
    \/ \E token \in AdminPrompts, confirmed \in BOOLEAN : handleAdminBtn(token, confirmed)
    \/ openAddEventModal
    \/ openEditEventModal
    \/ closeAddEventModal
    \/ handleEventFormSubmit
    \/ \E r \in InFlight, status \in AdminStatuses : handleEventFormSubmitResponse(r, status)
    \/ \E confirmed \in BOOLEAN : deleteEvent(confirmed)
    \/ \E r \in InFlight, status \in AdminStatuses : deleteEventResponse(r, status)
    \/ scrapeNewEvents
    \/ \E r \in InFlight, status \in AdminStatuses, json \in BOOLEAN :
            scrapeNewEventsResponse(r, status, json)
    \/ \E r \in InFlight : afterReload(r)

AdminSpec == AdminInit /\ [][AdminNext]_vars

\* what the cache of an earlier version may hold
OldEntries ==
    {NoEntries,
     [u \in Urls |-> IF u \in urlsToCache THEN 1 ELSE 0],
     [u \in Urls |-> IF u \in urlsToCache \/ u = <<"/","e","v","e","n","t","s","/","u","p","c","o","m","i","n","g">> THEN 1 ELSE 0]}

\* the browser has parsed the worker; the caches of the origin are those an
\* earlier version or an earlier run of this one has left
WorkerInit ==
    /\ StoreLoaded /\ now = Now1 /\ localDates = ParsedStart /\ NoParse
    /\ AdminLoaded(<<>>) /\ SessionLoaded(Null, <<>>)
    /\ phase = "parsed"
    /\ cacheNames \in SUBSET CacheNames
    /\ cacheEntries \in [CacheNames -> OldEntries]
    /\ \A n \in CacheNames \ cacheNames : cacheEntries[n] = NoEntries
    /\ online \in BOOLEAN
    /\ fetching = {}
    /\ putting = {}
    /\ respondedWith = NoResponse
    /\ lastPut = cacheEntries[CACHE_NAME]

\* The life of the worker and the requests of the page it controls.
WorkerNext ==
    \/ \E payload \in Payloads : install(payload)
    \/ installFailed
    \/ activate
    \/ \E request \in Requests : fetchEvent(request)
    \/ \E f \in fetching, payload \in Responses : fetchResolved(f, payload)
    \/ \E f \in fetching : fetchRejected(f)
    \/ \E p \in putting : putResolved(p)
    \/ connectionChanged

WorkerSpec == WorkerInit /\ [][WorkerNext]_vars

(***************************************************************************)
(* Properties of the filter pipeline and of loading.                        *)
(***************************************************************************)
\* an event satisfies the free-text predicate: the lowercased query occurs in
\* its title, description or location (a missing field matches nothing)
SatisfiesSearch(event, query) ==
    \/ query = <<>>
    \/ \E field \in {event.title, event.description, event.location} :
          field # Null /\ Includes(ToLowerCase(field), query)

\* the events of the store that satisfy the predicates of the current
\* selections; withSource and withSearch say whether those two axes count
Satisfying(withSource, withSearch) ==
    {id \in Range(allEvents) :
        /\ MatchesCategory(EventOf[id], currentCategory)
        /\ MatchesMonth(EventOf[id], currentMonth, now)
        /\ withSource => MatchesSource(EventOf[id], currentSource)
        /\ MatchesNeighborhood(EventOf[id], currentNeighborhood)
        /\ withSearch => SatisfiesSearch(EventOf[id], ToLowerCase(searchInput))}

FilteredIsAllFive == Range(filteredEvents) = Satisfying(TRUE, TRUE)

\* one of the six filter handlers ran to completion
FilterHandlerCompleted ==
    \/ \E category \in CategoryInputs : handleFilter(category)
    \/ \E value \in Range(monthOptions) \cup {All} : handleMonthFilter(value)
    \/ \E value \in Range(sourceOptions) \cup {All} : handleSourceFilter(value)
    \/ \E neighborhood \in NeighborhoodInputs : handleNeighborhoodFilter(neighborhood)
    \/ clearFilters
    \/ \E value \in QueryInputs :
          /\ handleSearch(value)
          /\ ~\E i \in DOMAIN allEvents : SearchThrows(EventOf[allEvents[i]], ToLowerCase(value))

\* C1: after handleFilter, handleMonthFilter, handleSourceFilter,
\* handleNeighborhoodFilter, handleSearch or clearFilters completes, an event of
\* the store is in the filtered set if and only if it satisfies all five
\* predicates of the current filter state, the text of the search box included.
C1_FilteredIffAllFive == [][FilterHandlerCompleted => FilteredIsAllFive']_filterVars

\* C8: the store holds the list of whichever successful response resolved
\* last, also when that response belongs to the call that was started first.
C8_LastResolvedWins == allEvents = lastResolved

\* C8 witness: two calls overlapped, the later one's response was applied, and
\* then the earlier one's response overwrote it.
C8_StaleOverwrite ==
    /\ staleApplied
    /\ allEvents = lastResolved
    /\ allEvents # <<>>
    /\ loads = <<>>

\* some call's response arrived with success and a list
SomeLoadSucceeded == \E i \in DOMAIN loads, events \in EventLists : loadEventsSuccess(i, events)

\* C9: after a successful loadEvents the displayed set is the new store
\* filtered by the category, month, neighbourhood and search selections made
\* before the fetch, which are still in effect.
C9_FiltersSurviveLoad ==
    [][SomeLoadSucceeded =>
          /\ currentCategory' = currentCategory
          /\ currentMonth' = currentMonth
          /\ currentNeighborhood' = currentNeighborhood
          /\ searchInput' = searchInput
          /\ Range(filteredEvents') = Satisfying(FALSE, TRUE)']_filterVars

\* C10: a successful loadEvents leaves in the store exactly the list of the
\* response, in the response's order, and the source selection at "all".
C10_LoadReplacesStore ==
    [][\A i \in DOMAIN loads, events \in EventLists :
          loadEventsSuccess(i, events) => allEvents' = events /\ currentSource' = All]_filterVars

\* C10 witness: a load has left a list that is not in id order, offered its
\* sources and left the source selection at "all".
C10_StoreReplaced ==
    /\ lastResolved = <<2, 1>>
    /\ allEvents = <<2, 1>>
    /\ sourceOptions # <<>>
    /\ currentSource = All

(***************************************************************************)
(* Properties of identity, bookmarks and saves.                             *)
(***************************************************************************)
\* a click that toggles a bookmark or a save: the button of the event modal, or
\* the remove button of a row of the saves modal
ToggleClicked == bookmarkClick \/ saveClick \/ \E id \in EventIds : savedRowRemove(id)

\* C2: a save/bookmark toggle writes one persistence tier, chosen by the
\* identity at the click: with currentUser null it changes neither the save
\* mirror nor the server nor sends a request, and with currentUser set it
\* leaves the bookmark set, in memory and in device storage, as it was.
C2_OneTierByIdentity ==
    [][ToggleClicked =>
          IF currentUser = NoUser
          THEN UNCHANGED <<savedEventIds, serverSaves, pending>>
          ELSE UNCHANGED <<bookmarkedIds, storedBookmarks>>]_vars

\* the migration loop of record r receives the answer to the POST it awaits
MigrationStep(r, outcome) == r.kind = "migrate" /\ migrationResponse(r, outcome)

\* C3: a sign-in with bookmarks starts the loop on the bookmark set of that
\* moment with the POST of its first id; every answer, success or failure,
\* moves the loop to the next id (the awaited POST is not sent again, no toast
\* is shown for it); after the answer to the last POST the bookmark set is
\* empty in memory and in device storage.
C3_MigrationSubmitsThenClears ==
    [][/\ \A r \in InFlight :
            (r.kind = "verifyOtp" /\ verifyOtpResponse(r, "success") /\ bookmarkedIds # <<>>)
                => /\ pending' = Followed(r, Migration(bookmarkedIds, 1, {}))
                   /\ UNCHANGED <<bookmarkedIds, storedBookmarks, toast>>
       /\ \A r \in InFlight, outcome \in SaveOutcomes :
            MigrationStep(r, outcome)
                => IF r.i < Len(r.ids)
                   THEN /\ \E failed \in SUBSET Range(r.ids) :
                                pending' = Followed(r, Migration(r.ids, r.i + 1, failed))
                        /\ UNCHANGED <<bookmarkedIds, storedBookmarks, toast>>
                   ELSE /\ bookmarkedIds' = <<>>
                        /\ storedBookmarks' = <<"[", "]">>
                        /\ \A m \in BagToSet(pending') : m.kind = "migrate" => m \in InFlight
                        /\ toast' \in {toast, "Welcome"}]_vars

\* C3 witness: the bookmarks 3, 1, 2 were migrated, the POST of 2 failed, the
\* others were accepted; the bookmark set is empty and 2 is in neither set
C3_PartialMigration ==
    /\ lastMigration = [ids |-> <<3, 1, 2>>, failed |-> {2}]
    /\ bookmarkedIds = <<>>
    /\ storedBookmarks = <<"[", "]">>
    /\ 2 \notin Range(serverSaves)
    /\ 2 \notin savedEventIds
    /\ {1, 3} \subseteq savedEventIds

\* a click of an authenticated user that calls toggleSave(id)
SaveRequested(id) ==
    /\ currentUser # NoUser
    /\ \/ eventModal.id = id /\ saveClick
       \/ savedRowRemove(id)

\* C4: toggleSave of an authenticated user sends one request, to remove the id
\* when the mirror holds it and to add it otherwise, and leaves the mirror as
\* it was; the response changes the mirror by that id only when it reports
\* success; and the mirror changes in no step but the response to a toggle, to
\* a load of the saves, or to the sign-out.
C4_MirrorOnlyAfterConfirmation ==
    [][/\ \A id \in EventIds :
            SaveRequested(id)
                => /\ savedEventIds' = savedEventIds
                   /\ serverSaves' = serverSaves
                   /\ pending' = Sent(Request("toggleSave", id, id \in savedEventIds))
       /\ \A r \in InFlight, outcome \in Outcomes :
            (r.kind = "toggleSave" /\ toggleSaveResponse(r, outcome))
                => savedEventIds' = IF outcome # "success" THEN savedEventIds
                                    ELSE IF r.flag THEN savedEventIds \ {r.id}
                                    ELSE savedEventIds \cup {r.id}
       /\ savedEventIds' # savedEventIds
                => \E r \in InFlight :
                        /\ r.kind \in {"toggleSave", "saves", "logout"}
                        /\ pending' = Answered(r)]_vars

\* C4 witness: the server confirmed the save of event 2 and the mirror holds it
C4_SaveConfirmed ==
    /\ currentUser # NoUser
    /\ toast = "Event saved!"
    /\ 2 \in savedEventIds
    /\ 2 \in Range(serverSaves)

\* the state of the user session: the second step of the sign-in form stands
\* for CODE_SENT
Session ==
    IF currentUser # NoUser THEN "AUTHENTICATED"
    ELSE IF profileBody.kind = "step2" THEN "CODE_SENT"
    ELSE "ANONYMOUS"

SendConfirmed == \E r \in InFlight : r.kind = "sendOtp" /\ sendOtpResponse(r, "success")
CodeVerified == \E r \in InFlight : r.kind = "verifyOtp" /\ verifyOtpResponse(r, "success")
SessionRestored == \E r \in InFlight : r.kind = "me" /\ initUserSessionResponse(r, "logged_in")
SignedOut == \E r \in InFlight : r.kind = "logout" /\ logoutResponse(r)

\* what the statement says of resends and of failed verifications
OtpRetries ==
    /\ (Session = "CODE_SENT" /\ resendClick) => Session' = "CODE_SENT"
    /\ \A r \in InFlight :
            (r.kind = "sendOtp" /\ r.flag /\ Session = "CODE_SENT"
                /\ \E outcome \in Outcomes : sendOtpResponse(r, outcome))
                => Session' = "CODE_SENT"
    /\ \A r \in InFlight, outcome \in {"failure", "error"} :
            (r.kind = "verifyOtp" /\ verifyOtpResponse(r, outcome))
                => Session' = Session /\ currentUser' = currentUser
    /\ \A r \in InFlight :
            (r.kind = "verifyOtp" /\ verifyOtpResponse(r, "success")) => currentUser' = User1

\* C5 as stated: apart from the check on page load, the session changes only
\* from ANONYMOUS to CODE_SENT when sendOtp succeeds, from CODE_SENT to
\* AUTHENTICATED when verifyOtp succeeds, and from AUTHENTICATED to ANONYMOUS
\* on logoutUser; a resend and a failed verification leave CODE_SENT, and a
\* verification that succeeds authenticates however many failed before.
C5_OnlyOtpPath ==
    [][/\ Session' # Session
            => \/ Session = "ANONYMOUS" /\ Session' = "CODE_SENT" /\ SendConfirmed
               \/ Session = "CODE_SENT" /\ Session' = "AUTHENTICATED" /\ CodeVerified
               \/ Session = "AUTHENTICATED" /\ Session' = "ANONYMOUS" /\ SignedOut
               \/ SessionRestored
       /\ OtpRetries]_vars

\* C5 amended: the session also leaves CODE_SENT for ANONYMOUS when the
\* sign-in form is opened again (showSignInModal shows its first step), and a
\* verification sent before that authenticates from ANONYMOUS; logoutUser ends
\* AUTHENTICATED and leaves the form as it was, to be shown at its first step
\* when it is opened; the rest is as stated.
C5_SessionMoves ==
    [][/\ Session' # Session
            => \/ Session = "ANONYMOUS" /\ Session' = "CODE_SENT" /\ SendConfirmed
               \/ Session = "CODE_SENT" /\ Session' = "ANONYMOUS" /\ handleProfileBtn
               \/ Session # "AUTHENTICATED" /\ Session' = "AUTHENTICATED"
                    /\ (CodeVerified \/ SessionRestored)
               \/ Session = "AUTHENTICATED" /\ Session' # "AUTHENTICATED" /\ SignedOut
       /\ OtpRetries]_vars

\* C5 witness: signed in after as many refused verifications as are counted
C5_SignedInAfterFailures ==
    /\ currentUser = User1
    /\ failedVerifies = MaxFailed
    /\ toast = "Welcome"

\* initUserSession's load of the saves receives its answer
RestoreLoadSettled(r, outcome) ==
    r.kind = "saves" /\ ~r.flag /\ loadUserSavesResponse(r, outcome)

\* what the response to /auth/me does to the session
RestoreDecides ==
    \A r \in InFlight, outcome \in MeOutcomes :
        (r.kind = "me" /\ initUserSessionResponse(r, outcome))
            => IF outcome = "logged_in"
               THEN /\ currentUser' = User1
                    /\ pending' = Followed(r, Request("saves", 0, FALSE))
               ELSE /\ pending' = Answered(r)
                    /\ UNCHANGED <<currentUser, savedEventIds>>

\* C6 as stated: the response to /auth/me authenticates exactly when it reports
\* logged_in, a negative answer or an error leaving the session and the empty
\* mirror alone; and when the session is restored, the answer to the load of
\* the saves leaves the server's save set in the mirror.
C6_RestoreLoadsSaveSet ==
    [][/\ RestoreDecides
       /\ \A r \in InFlight, outcome \in Outcomes :
            RestoreLoadSettled(r, outcome) => savedEventIds' = Range(serverSaves)]_vars

\* C6 amended: when the session is restored the save set is requested, and it
\* is in the mirror once that request succeeds; when the request fails the
\* session stays authenticated and the mirror stays as it was.
C6_RestoreRequestsSaveSet ==
    [][/\ RestoreDecides
       /\ \A r \in InFlight, outcome \in Outcomes :
            RestoreLoadSettled(r, outcome)
                => /\ savedEventIds' = IF outcome = "success" THEN Range(serverSaves)
                                       ELSE savedEventIds
                   /\ currentUser' = currentUser]_vars

\* C6 witness: the session restored on page load, with no sign-in form ever
\* shown, and the user's save in the mirror
C6_SessionRestored ==
    /\ currentUser = User1
    /\ profileBody.kind = "empty"
    /\ savedEventIds = {1}
    /\ pending = EmptyBag

\* no event id in two rows
NoDuplicate(rows) == \A a, b \in DOMAIN rows : rows[a] = rows[b] => a = b

\* C7: a POST of the migration loop for an id the save set already holds adds
\* no second row: a save set without duplicates has none after the POST.
C7_RemigrationNoDuplicate ==
    [][(/\ NoDuplicate(serverSaves)
        /\ \E r \in InFlight, outcome \in SaveOutcomes : MigrationStep(r, outcome))
            => NoDuplicate(serverSaves')]_vars

(***************************************************************************)
(* Properties of parseLocalDate.                                            *)
(***************************************************************************)
\* the Date whose local fields are the fields written in the string
LiteralDate(f) ==
    [valid |-> TRUE, y |-> f.y, mo |-> f.mo - 1, d |-> f.d, h |-> f.h, mi |-> f.mi, s |-> f.s]

\* C11: for any timestamp fields, parseLocalDate of the ISO-like encoding, with
\* 'T' or a space as separator and with or without a zone suffix, returns the
\* Date that parseLocalDate returns for the RFC 2822 encoding of the same fields.
C11_EncodingsAgree ==
    [][\A f \in TimestampFields, sep \in Separators, suffix \in ZoneSuffixes :
          parseCall(IsoWire(f, sep, suffix)) => parsedDate' = localDates[RfcWire(f), now]]_vars

\* C12: parseLocalDate returns the local time whose year, month, day, hour,
\* minute and second are the fields written in its input, whatever zone suffix
\* ('GMT', 'Z', '+hh:mm', '-hh:mm') follows them.
C12_LiteralFields ==
    [][\A f \in TimestampFields :
          /\ parseCall(RfcWire(f)) => parsedDate' = LiteralDate(f)
          /\ \A sep \in Separators, suffix \in ZoneSuffixes :
                parseCall(IsoWire(f, sep, suffix)) => parsedDate' = LiteralDate(f)]_vars

\* C13: parseLocalDate returns the current time for empty input and for input
\* of neither encoding, and never returns an invalid date.
C13_FallbackIsNow ==
    [][/\ \A s \in EmptyInputs \cup UnparseableInputs : parseCall(s) => parsedDate' = now
       /\ \A s \in DateInputs : parseCall(s) => parsedDate'.valid]_vars

(***************************************************************************)
(* Properties of the rendering.                                             *)
(***************************************************************************)
\* the places <<group, position>> of the displayed groups that hold event id
PlacesOf(id) ==
    {pl \in UNION {{<<k, j>> : j \in DOMAIN container[k].items} : k \in DOMAIN container} :
        container[pl[1]].items[pl[2]] = id}

\* C14: the day groups displayed are a partition of the filtered set: every
\* filtered event is in exactly one group, the group keyed by the local
\* calendar date (YYYY-MM-DD) of its start_date; a group holds filtered events
\* only and is never empty; and the keys of the groups ascend.
C14_DayGroupsPartition ==
    container # <<>> =>
        /\ \A id \in Range(filteredEvents) :
              /\ Cardinality(PlacesOf(id)) = 1
              /\ \A pl \in PlacesOf(id) :
                    container[pl[1]].key = localDates[EventOf[id].start_date, now].day
        /\ \A k \in DOMAIN container :
              /\ container[k].items # <<>>
              /\ Range(container[k].items) \subseteq Range(filteredEvents)
        /\ \A k \in 1..(Len(container) - 1) : StrLess(container[k].key, container[k + 1].key)

\* C14 witness: the event listed first starts on the later day, and its group
\* is displayed second
C14_TwoDaysInKeyOrder ==
    /\ filteredEvents = <<1, 2>>
    /\ Len(container) = 2
    /\ container[1].items = <<2>>
    /\ container[2].items = <<1>>

(***************************************************************************)
(* Admin requests refused for the token.                                    *)
(***************************************************************************)
\* the answer `status` to the admin request r is handled
AdminAnswered(r, status) ==
    \/ handleEventFormSubmitResponse(r, status)
    \/ deleteEventResponse(r, status)
    \/ \E json \in BOOLEAN : scrapeNewEventsResponse(r, status, json)

\* C15: a 401 or 403 answer to an admin request (add, edit, delete, scrape)
\* removes the admin token at once, which turns admin mode off, and shows a
\* notice; the request is not sent again and the store is not reloaded.
C15_RefusalEndsAdminMode ==
    [][\A r \in InFlight : \A status \in {"401", "403"} :
          AdminAnswered(r, status) =>
              /\ adminToken' = <<>>
              /\ ~addEventBtn'
              /\ toast' \in {"Admin mode disabled", "Scraping failed"}
              /\ pending' = Answered(r)
              /\ loads' = loads
              /\ allEvents' = allEvents]_vars

(***************************************************************************)
(* Saves that fail.                                                         *)
(***************************************************************************)
\* C16: when the toggleSave of a signed-in user fails, by a throw or by an
\* answer without success, an error notification is shown and the mirror of
\* the saves is as it was before the call.
C16_FailedSaveNotified ==
    [][\A r \in InFlight, outcome \in {"failure", "error"} :
          (r.kind = "toggleSave" /\ toggleSaveResponse(r, outcome))
              => /\ toast' = "Could not update saves. Try again."
                 /\ savedEventIds' = savedEventIds]_vars


(***************************************************************************)
(* Loads that fail.                                                         *)
(***************************************************************************)
\* C17: when the fetch of loadEvents rejects or its body does not parse, the
\* events container is emptied and the empty state shown, the loading
\* indicator is hidden, and the handler completes: the call is over, the
\* refresh button is enabled again and the store is as it was.
C17_FailedLoadShowsEmptyState ==
    [][\A i \in DOMAIN loads :
          loadEventsError(i)
              => /\ container' = <<>>
                 /\ emptyShown'
                 /\ ~loadingShown'
                 /\ ~refreshDisabled'
                 /\ Len(loads') = Len(loads) - 1
                 /\ allEvents' = allEvents
                 /\ filteredEvents' = filteredEvents]_vars

\* a failed reload has emptied a list that had rows to show
C17_RowsGoneAfterFailedLoad ==
    /\ filteredEvents # <<>>
    /\ container = <<>>
    /\ emptyShown
    /\ ~loadingShown

(***************************************************************************)
(* The caches of the service worker.                                        *)
(***************************************************************************)
\* no cache and no entry of a cache is taken away in the step
NothingEvicted ==
    /\ cacheNames \subseteq cacheNames'
    /\ \A n \in CacheNames, u \in Urls : cacheEntries[n][u] # 0 => cacheEntries'[n][u] # 0

\* C18: the activate listener deletes every cache whose name is not CACHE_NAME
\* and keeps the one that is, entries included; once the worker is activated
\* the cache named CACHE_NAME is the only one; and no other step of the worker
\* deletes a cache or an entry.
C18_ActivateIsSoleEviction ==
    /\ [](phase = "activated" => cacheNames = {CACHE_NAME})
    /\ [][/\ activate => /\ cacheNames' = cacheNames \cap {CACHE_NAME}
                         /\ cacheEntries'[CACHE_NAME] = cacheEntries[CACHE_NAME]
                         /\ \A n \in CacheNames \ {CACHE_NAME} : cacheEntries'[n] = NoEntries
          /\ ~activate => NothingEvicted]_vars

\* the worker is activated before any fetch: the cache of this version holds
\* what an earlier run had put and what install wrote
C18_CurrentCacheKept ==
    /\ phase = "activated"
    /\ respondedWith = NoResponse /\ fetching = {} /\ putting = {}
    /\ cacheNames = {CACHE_NAME}
    /\ cacheEntries[CACHE_NAME][<<"/","e","v","e","n","t","s","/","u","p","c","o","m","i","n","g">>] = 1
    /\ cacheEntries[CACHE_NAME][<<"/">>] = 2

\* C19: a fetch event is answered from the cache when an entry matches the
\* request, without a request to the network and without a write; a request
\* that no entry matches goes to the network and is answered with its
\* response. That response is put into the cache named CACHE_NAME only when
\* the URL of the request contains '/events'; for every other request nothing
\* is written.
C19_CacheFirstEventsWritten ==
    [][/\ \A request \in Requests :
            fetchEvent(request) =>
                /\ cacheEntries' = cacheEntries /\ cacheNames' = cacheNames
                /\ putting' = putting
                /\ IF Matches(request.url, request.method) # {}
                   THEN /\ respondedWith'.from = "cache"
                        /\ respondedWith'.url = request.url
                        /\ respondedWith'.payload \in Matches(request.url, request.method)
                        /\ fetching' = fetching
                   ELSE /\ fetching' = fetching \cup {request}
                        /\ respondedWith' = respondedWith
       /\ \A f \in fetching, payload \in Responses :
            fetchResolved(f, payload) =>
                /\ respondedWith'.from = "network"
                /\ respondedWith'.url = f.url
                /\ respondedWith'.payload = payload
                /\ cacheEntries' = cacheEntries
                /\ putting' \subseteq putting \cup {[url |-> f.url, payload |-> payload]}
                /\ ~Includes(f.url, <<"/","e","v","e","n","t","s">>) => putting' = putting
       /\ \A p \in putting :
            putResolved(p) =>
                /\ Includes(p.url, <<"/","e","v","e","n","t","s">>)
                /\ cacheEntries' = [cacheEntries EXCEPT ![CACHE_NAME][p.url] = p.payload]
       /\ phase = "activated" /\ cacheEntries' # cacheEntries => \E p \in putting : putResolved(p)]_vars

\* the saves were answered from the network and not written, the list of
\* events was written with the second payload of the network
C19_SavesPassedEventsWritten ==
    /\ respondedWith.from = "network"
    /\ respondedWith.url = <<"/","p","r","o","f","i","l","e","/","s","a","v","e","s">>
    /\ cacheEntries[CACHE_NAME][<<"/","p","r","o","f","i","l","e","/","s","a","v","e","s">>] = 0
    /\ cacheEntries[CACHE_NAME][<<"/","e","v","e","n","t","s","/","u","p","c","o","m","i","n","g">>] = 2
    /\ putting = {}

\* C20: a fetch event for an events-bearing request that has been cached,
\* handled without network, is answered from the cache with the payload of
\* the last cache.put for that request that resolved.
C20_OfflineServesLastPut ==
    [][\A request \in Requests :
          (/\ fetchEvent(request)
           /\ ~online
           /\ request.method = "GET"
           /\ Includes(request.url, <<"/","e","v","e","n","t","s">>)
           /\ lastPut[request.url] # 0)
              => respondedWith' = [url |-> request.url, method |-> "GET",
                                   payload |-> lastPut[request.url], from |-> "cache",
                                   offline |-> TRUE]]_vars

\* the list of events, put with the second payload of the network, is served
\* from the cache while the network cannot be reached
C20_ServedOfflineFromCache ==
    /\ ~online
    /\ respondedWith = [url |-> <<"/","e","v","e","n","t","s","/","u","p","c","o","m","i","n","g">>, method |-> "GET", payload |-> 2,
                        from |-> "cache", offline |-> TRUE]
    /\ lastPut[<<"/","e","v","e","n","t","s","/","u","p","c","o","m","i","n","g">>] = 2
    /\ putting = {}

C22_AnonymousMirrorEmpty == currentUser = NoUser => savedEventIds = {}

\* C23: every id that the end of the migration takes out of the bookmark set
\* was submitted by its loop, also an id bookmarked while the loop was
\* waiting for a response.
C23_ClearedIdsWereSubmitted ==
    [][\A r \in InFlight, outcome \in SaveOutcomes :
          migrationResponse(r, outcome)
              => (Range(bookmarkedIds) \ Range(bookmarkedIds')) \subseteq Range(r.ids)]_vars

\* C24: when no request of a signed-in user is in flight any more, the mirror
\* of the saves is the save set the server holds, in whatever order the
\* responses to loadUserSaves and toggleSave have arrived.
C24_SettledMirrorIsServerSet ==
    (currentUser # NoUser /\ pending = EmptyBag) => savedEventIds = Range(serverSaves)

(***************************************************************************)
(* The age of a cached response.                                            *)
(***************************************************************************)
\* the entry of the current cache for the URL
Cached(url) == cacheEntries[CACHE_NAME][url]

\* a fetch event or a cache.put for the URL has yet to settle
Unsettled(url) ==
    \/ \E f \in fetching : f.url = url
    \/ \E p \in putting : p.url = url

\* C25 as stated: the activated worker never replaces a cached response.
C25_NeverReplaced ==
    [][\A url \in Urls :
          phase = "activated" /\ Cached(url) # 0 => Cached(url)' = Cached(url)]_vars

\* C25: once a request is cached, every fetch event for it is answered from
\* the cache with that payload, without a request to the network and without
\* a write; the cached response is replaced only by the cache.put of a fetch
\* event that found no entry, and never once those have settled.
C25_CachedResponseStays ==
    [][/\ \A request \in Requests :
            (fetchEvent(request) /\ request.method = "GET" /\ Cached(request.url) # 0)
                => /\ respondedWith'.from = "cache"
                   /\ respondedWith'.url = request.url
                   /\ respondedWith'.payload = Cached(request.url)
                   /\ fetching' = fetching /\ putting' = putting
                   /\ cacheEntries' = cacheEntries
       /\ \A url \in Urls :
            (phase = "activated" /\ Cached(url) # 0 /\ Cached(url)' # Cached(url))
                => \E p \in putting : p.url = url /\ putResolved(p)
       /\ \A url \in Urls :
            (phase = "activated" /\ Cached(url) # 0 /\ ~Unsettled(url))
                => Cached(url)' = Cached(url)]_vars

\* the list of events is served with payload 1 of an earlier run, with the
\* network in reach, after install has fetched payload 2
C25_OldPayloadServedOnline ==
    /\ online
    /\ Cached(<<"/">>) = 2
    /\ respondedWith = [url |-> <<"/","e","v","e","n","t","s","/","u","p","c","o","m","i","n","g">>, method |-> "GET", payload |-> 1,
                        from |-> "cache", offline |-> FALSE]
    /\ fetching = {} /\ putting = {}

(***************************************************************************)
(* The neighbourhood predicate.                                             *)
(***************************************************************************)
\* the keyword substrings listed for a neighbourhood name; none for a name
\* without an entry
ListedKeywords(name) ==
    UNION {Range(NEIGHBORHOOD_KEYWORDS[i].kws) :
              i \in {j \in DOMAIN NEIGHBORHOOD_KEYWORDS : NEIGHBORHOOD_KEYWORDS[j].name = name}}

\* the event has a location whose lowercased text contains a listed keyword
LocationHasKeyword(event, name) ==
    /\ event.location # Null
    /\ \E kw \in ListedKeywords(name) : Includes(ToLowerCase(event.location), kw)

\* a handler that ends in applyFilters() has run
ApplyFiltersRan ==
    \/ \E category \in CategoryInputs : handleFilter(category)
    \/ \E value \in Range(monthOptions) \cup {All} : handleMonthFilter(value)
    \/ \E value \in Range(sourceOptions) \cup {All} : handleSourceFilter(value)
    \/ \E neighborhood \in NeighborhoodInputs : handleNeighborhoodFilter(neighborhood)

\* C26: with a neighbourhood selected, applyFilters keeps, of the events that
\* pass the category, month and source tests, exactly those whose lowercased
\* location contains a keyword listed for the neighbourhood: an event without
\* a location is left out, and under a name without a keyword entry every
\* event is.
C26_NeighborhoodByKeyword ==
    [][(ApplyFiltersRan /\ currentNeighborhood' # All) =>
          /\ Range(filteredEvents') =
                {id \in Range(allEvents) :
                    /\ MatchesCategory(EventOf[id], currentCategory')
                    /\ MatchesMonth(EventOf[id], currentMonth', now)
                    /\ MatchesSource(EventOf[id], currentSource')
                    /\ LocationHasKeyword(EventOf[id], currentNeighborhood')}
          /\ \A id \in Range(filteredEvents') : EventOf[id].location # Null
          /\ ListedKeywords(currentNeighborhood') = {} => filteredEvents' = <<>>]_vars

\* the Fishtown pill keeps the event at "Fishtown" and leaves out the event
\* without a location
C26_FishtownKeepsOne ==
    /\ currentNeighborhood = <<"F","i","s","h","t","o","w","n">>
    /\ Range(allEvents) = {1, 3}
    /\ filteredEvents = <<1>>
    /\ currentCategory = "all" /\ currentMonth = All /\ currentSource = All

(***************************************************************************)
(* The token of the admin requests.                                         *)
(***************************************************************************)
\* the requests to add or edit an event, to delete one and to start a scrape
\* that the step sends
AdminRequestsSent ==
    {r \in BagToSet(pending') :
        /\ r.kind \in {"saveEvent", "deleteEvent", "scrape"}
        /\ CopiesIn(r, pending') > CopiesIn(r, pending)}

\* C27: every request to add, edit or delete an event or to start a scrape
\* carries the admin token of that moment in its X-Admin-Token header.
C27_AdminRequestsCarryToken ==
    [][\A r \in AdminRequestsSent : r.header = adminToken]_vars

(***************************************************************************)
(* Sign-out.                                                                *)
(***************************************************************************)
\* C28: logoutUser, whether its request was answered or failed, leaves the
\* session anonymous and the mirror of the saves empty, and leaves the
\* bookmarks as they are, in memory and in localStorage: it puts none of the
\* ids the migration of the sign-in took back into the bookmark set.
C28_LogoutEndsAnonymous ==
    [][\A r \in InFlight :
          logoutResponse(r)
              => /\ currentUser' = NoUser
                 /\ savedEventIds' = {}
                 /\ bookmarkedIds' = bookmarkedIds
                 /\ storedBookmarks' = storedBookmarks
                 /\ Range(bookmarkedIds') \cap Range(lastMigration.ids)
                        \subseteq Range(bookmarkedIds)]_vars

\* signed out after a sign-in whose migration of bookmark 3 has ended: the
\* server holds the save and the bookmark set is still empty
C28_SignedOutAfterMigration ==
    /\ toast = "Signed out."
    /\ currentUser = NoUser
    /\ savedEventIds = {}
    /\ lastMigration.ids = <<3>>
    /\ 3 \in Range(serverSaves)
    /\ bookmarkedIds = <<>>
    /\ pending = EmptyBag

(***************************************************************************)
(* What a failed load leaves alone.                                         *)
(***************************************************************************)
\* the store, the filtered list and every selection of the filters are in the
\* next state what they are in this one
SelectionsAndStoreKept ==
    UNCHANGED <<allEvents, filteredEvents, currentCategory, currentMonth, currentSource,
                currentNeighborhood, searchInput, monthOptions, monthSelectValue,
                sourceOptions>>

\* C29: a loadEvents call whose fetch rejects, whose body does not parse or
\* whose body has no truthy success changes neither the store nor the filtered
\* list nor any selection of the filters, when it starts as when it ends.
C29_FailedLoadKeepsStoreAndFilters ==
    [][(\/ refreshEvents
        \/ \E i \in DOMAIN loads : loadEventsNoSuccess(i)
        \/ \E i \in DOMAIN loads : loadEventsError(i))
          => SelectionsAndStoreKept]_vars

\* a reload has failed with a category and a search selected: the filtered
\* list still holds the events that matched, though no row is shown
C29_FailedLoadWithFiltersSet ==
    /\ currentCategory # "all"
    /\ searchInput # <<>>
    /\ filteredEvents # <<>>
    /\ Len(filteredEvents) < Len(allEvents)
    /\ container = <<>>
    /\ emptyShown
    /\ loads = <<>>

(***************************************************************************)
(* A restored session and the bookmarks of the device.                      *)
(***************************************************************************)
\* the migration loop of a sign-in is still waiting for a response
MigrationRunning == \E q \in InFlight : q.kind = "migrate"

\* the step starts a migration: the request for its first bookmark leaves
MigrationStarts ==
    /\ ~MigrationRunning
    /\ \E q \in BagToSet(pending') : q.kind = "migrate"

\* C30: a session restored by initUserSession leaves the bookmarks of the
\* device as they are, in memory and in localStorage, and sends none of them
\* to the server; a migration starts in no step but the accepted verifyOtp,
\* which runs onLoginSuccess.
C30_RestoreLeavesBookmarks ==
    [][/\ \A r \in InFlight :
             initUserSessionResponse(r, "logged_in")
                 => /\ bookmarkedIds' = bookmarkedIds
                    /\ storedBookmarks' = storedBookmarks
                    /\ lastMigration' = lastMigration
                    /\ serverSaves' = serverSaves
                    /\ \E q \in BagToSet(pending') : q.kind = "saves"
                    /\ \A q \in BagToSet(pending') : q.kind = "migrate" => q \in InFlight
       /\ MigrationStarts => \E r \in InFlight : verifyOtpResponse(r, "success")]_vars

\* a restored session whose saves are loaded while bookmark 3 is still on the
\* device and not among the saves of the server
C30_RestoredWithBookmark ==
    /\ currentUser # NoUser
    /\ bookmarkedIds = <<3>>
    /\ storedBookmarks = StoredBookmark
    /\ serverSaves = <<1>>
    /\ savedEventIds = {1}
    /\ pending = EmptyBag

(***************************************************************************)
(* Two toggleSave calls for one event.                                      *)
(***************************************************************************)
\* the toggleSave requests for event id that read isSaved = flag, that the
\* server has handled and whose responses are still on their way
TogglesOnTheWay(id, flag) ==
    {r \in InFlight : r.kind = "toggleSave" /\ r.id = id /\ r.flag = flag /\ Handled(r)}

\* two toggleSave calls for event id were made from the same mirror, the
\* second before the response to the first, and the server has handled both
ToggledTwice(id, flag) ==
    BagCardinality([r \in TogglesOnTheWay(id, flag) |-> pending[r]]) = 2

\* C31: once the server has handled two toggleSave calls for the same event,
\* the second made before the response to the first, the event is among the
\* saves of the server exactly if it was before the first call, and the two
\* responses leave the mirror in that state too.
C31_TogglingTwiceIsNoOp ==
    \A id \in EventIds, flag \in BOOLEAN :
        ToggledTwice(id, flag)
            => /\ (id \in Range(serverSaves)) = flag
               /\ \A r \in TogglesOnTheWay(id, flag) :
                      (id \in MirrorAfterToggle(MirrorAfterToggle(savedEventIds, id, r.flag,
                                                                  "success"),
                                                id, r.flag, "success")) = flag

(***************************************************************************)
(* The loading indicator and the refresh button.                            *)
(***************************************************************************)
\* C32: while a loadEvents call awaits its response the loading indicator is
\* shown and the refresh button is disabled; they are hidden and enabled only
\* when no call is in flight, overlapping calls included.
C32_BusyWhileLoading ==
    /\ loads # <<>> => loadingShown /\ refreshDisabled
    /\ loads = <<>> => ~loadingShown /\ ~refreshDisabled

(***************************************************************************)
(* Error responses and the cache.                                           *)
(***************************************************************************)
\* C33: the worker writes the response of an events-bearing request into the
\* cache only when the response is successful: no entry of a cache holds the
\* body of an error response, and no fetch event is answered from the cache
\* with one.
C33_ErrorResponseNotStored ==
    /\ \A n \in cacheNames, u \in Urls : cacheEntries[n][u] # ErrorBody
    /\ respondedWith.from = "cache" => respondedWith.payload # ErrorBody

(***************************************************************************)
(* A search over events with missing fields.                                *)
(***************************************************************************)
\* C34: handleSearch with a non-empty query completes whatever the events
\* hold: the filtered set is recomputed over every event of the store, an
\* event without title, description or location not matching on that field.
C34_SearchNeverThrows ==
    [][\A value \in QueryInputs :
          (value # <<>> /\ handleSearch(value))
              => Range(filteredEvents') = Satisfying(TRUE, TRUE)']_vars

(***************************************************************************)
(* The order of the filtered list.                                          *)
(***************************************************************************)
\* the events of the store that the filtered list holds, in the store's order
StoreOrderOfFiltered ==
    LET Kept(id) == id \in Range(filteredEvents)
    IN  SelectSeq(allEvents, Kept)

\* C35: the filtered list is a subsequence of the store: it holds events of
\* the store only, each once, in the order the store holds them, after every
\* filter operation as after every load.
C35_FilteredKeepsStoreOrder == filteredEvents = StoreOrderOfFiltered

\* a category is selected and the two events that pass are listed as the
\* store lists them, the one with the higher id first
C35_TwoKeptInStoreOrder ==
    /\ currentCategory = "music"
    /\ allEvents = <<3, 1>>
    /\ filteredEvents = <<3, 1>>

(***************************************************************************)
(* The order of the events of a day.                                        *)
(***************************************************************************)
\* C36: the events of a day group are in the order the filtered list holds
\* them, whatever their start times: each group is the filtered list
\* restricted to the events of its day.
C36_DayKeepsFilteredOrder ==
    \A k \in DOMAIN container :
        LET InGroup(id) == id \in Range(container[k].items)
        IN  container[k].items = SelectSeq(filteredEvents, InGroup)

\* on the day event 1 starts at midnight, event 3, which has no start date
\* and so starts at the time of the clock, ten seconds after midnight, is
\* listed before event 1 and is rendered before it
C36_LaterStartRenderedFirst ==
    /\ now = Now2
    /\ filteredEvents = <<3, 1>>
    /\ Len(container) = 1
    /\ container[1].items = <<3, 1>>

(***************************************************************************)
(* The options of the month and source selects.                             *)
(***************************************************************************)
\* the month keys of the start dates of the events of the store
MonthsOfStore == {localDates[EventOf[id].start_date, now].month : id \in Range(allEvents)}

\* the trimmed sources of the events of the store that have one
SourcesOfStore ==
    {Trim(EventOf[id].source) :
        id \in {x \in Range(allEvents) :
                   EventOf[x].source # Null /\ Trim(EventOf[x].source) # <<>>}}

\* each value once, the lesser first
Ascending(options) == \A k \in 1..(Len(options) - 1) : StrLess(options[k], options[k + 1])

\* the options offered are the months and the sources of the store
OptionsAreThoseOfStore ==
    /\ Range(monthOptions) = MonthsOfStore
    /\ Ascending(monthOptions)
    /\ Range(sourceOptions) = SourcesOfStore
    /\ Ascending(sourceOptions)

\* C37: after a successful loadEvents the month options are the distinct
\* YYYY-MM months of the start dates of the events of the store and the source
\* options their distinct trimmed, non-empty sources, each once and ascending.
C37_OptionsFromStore == [][SomeLoadSucceeded => OptionsAreThoseOfStore']_vars

\* a load has brought two events of two months whose sources differ only by
\* blanks at the ends: two months and one source are offered
C37_TwoMonthsOneSource ==
    /\ allEvents = <<1, 2>>
    /\ Len(monthOptions) = 2
    /\ sourceOptions = <<<<"W","X","P","N">>>>
    /\ loads = <<>>

(***************************************************************************)
(* Selecting an option that is offered.                                     *)
(***************************************************************************)
\* C38: every option of the month select and of the source select matches an
\* event of the store: when it is selected with the category and the
\* neighbourhood at "all", the other select at "all" and no search text, the
\* filtered list is not empty.
C38_OfferedOptionMatches ==
    [][(currentCategory = "all" /\ currentNeighborhood = All /\ searchInput = <<>>)
          => /\ \A value \in Range(monthOptions) :
                    (currentSource = All /\ handleMonthFilter(value))
                        => filteredEvents' # <<>>
             /\ \A value \in Range(sourceOptions) :
                    (currentMonth = All /\ handleSourceFilter(value))
                        => filteredEvents' # <<>>]_vars

(***************************************************************************)
(* The time column of a row.                                                *)
(***************************************************************************)
\* C39: the row of an event shows "Time TBD" exactly when the hour and the
\* minute of its parsed local start are both 0, whatever the seconds, and
\* shows the formatted local start time otherwise.
C39_TimeTBDAtMidnight ==
    eventTime # <<>> =>
        /\ eventTime = TimeTBD
               <=> (parsedDate.valid /\ parsedDate.h = 0 /\ parsedDate.mi = 0)
        /\ eventTime # TimeTBD => eventTime = toLocaleTimeString(parsedDate)

\* an event that starts 45 seconds after midnight is labelled "Time TBD"
C39_MidnightWithSecondsIsTBD ==
    /\ eventTime = TimeTBD
    /\ parsedDate.valid
    /\ parsedDate.h = 0 /\ parsedDate.mi = 0 /\ parsedDate.s = 45

====
